---- MODULE Spec2Model ----
(***************************************************************************)
(* Model of the mask-guided edit pipeline of ai-image-app:                 *)
(*   POST /api/edit          routes/edit.ts                                *)
(*   raster helpers          services/inpaint.ts                           *)
(*   model client            services/openrouter.ts                        *)
(*   storage                 lib/image-io.ts                               *)
(* Rasters are row-major sequences, pixel (x,y) of a w-wide raster is      *)
(* entry y*w + x + 1, as the Buffers of the code are indexed by y*w + x.   *)
(* Non-integer arithmetic of the code (scale factors, gains, kernel        *)
(* weights) is carried out exactly on integer fractions.                   *)
(***************************************************************************)
EXTENDS Integers, Sequences, FiniteSets, TLC

VARIABLES
  storage,     \* [generated, edits]: file name -> file content; edits may be "nodir"
  storage0,    \* the storage as it was when the request arrived
  pc,          \* position of the /api/edit handler
  stage,       \* the handler's local variable `stage`
  body,        \* the JSON body of the request
  req,         \* the parsed body: filename, feather, padding, save
  originalBuf, \* bytes of the base image read from storage
  msk,         \* mask-space results: decoded alpha, inflated alpha, b0, padded bbox
  geo,         \* image-space results: imgW, imgH, fullAlphaImageSpace, bbox, patch size
  orFrame,     \* the running call of orGenerateFromPatch
  modelCalls,  \* number of requests sent to the model by this edit
  editedBuf,   \* the patch the model returned
  outBuf,      \* the composited image
  resp,        \* the HTTP response of the request
  writes,      \* history: number of files this request wrote
  failedOp,    \* history: the operation whose failure ended the request
  thrown,      \* history: the error the catch block caught
  rawChannels, \* channels of sharp's raw output for a one-channel raw input
  trace,       \* history: the values assigned to `stage`, in order
  fn,          \* a raster helper called on its own: its arguments and its result
  editor,      \* the state of one InpaintingEditor.vue instance
  app,         \* the state of App.vue
  conc         \* edit requests running side by side on one storage

\* the state of the /api/edit handler
serverVars == <<storage, storage0, pc, stage, body, req, originalBuf, msk, geo,
                orFrame, modelCalls, editedBuf, outBuf, resp, writes, failedOp, thrown,
                rawChannels, trace>>

\* the state of the other components
others == <<fn, editor, app, conc>>

vars == <<serverVars, others>>

None == "none"

(***************************************************************************)
(* Bounds of the model.                                                    *)
(***************************************************************************)
MaxPainted == 2   \* painted pixels of a mask
MaxPad     == 0   \* largest explicit padding of a request
MaxFeather == 0   \* largest explicit feather of a request
MaxBox     == 12  \* longest edge of the small boxes makePatchDataUrlScaled is called on
MaxEnvOps  == 2   \* upload, save and delete requests running beside the edits
MaxEvents  == 7   \* user events delivered to one mask editor
MaxSaves   == 2   \* files the app shell's upload and save calls create

(***************************************************************************)
(* Program constants.                                                      *)
(***************************************************************************)
DefaultFeather == 2
DefaultPadding == 12
FeatherLimit   == 32
PaddingLimit   == 128
LumaThreshold  == 200
InflatePx      == 1
InflateCut     == 128
PatchMaxEdge   == 1024
RingPx         == 8

MaskDims == <<3, 3>>
ImgDims  == {<<3, 3>>, <<2, 6>>}

Min(a, b) == IF a < b THEN a ELSE b
Max(a, b) == IF a > b THEN a ELSE b

\* inpaint.ts: clamp
clamp(n, lo, hi) == Min(Max(n, lo), hi)

\* Math.round of the non-negative fraction num/den: floor(num/den + 1/2)
RoundDiv(num, den) == (2 * num + den) \div (2 * den)

RECURSIVE SumTo(_, _)
\* sum of f[1..n]
SumTo(f, n) == IF n = 0 THEN 0 ELSE f[n] + SumTo(f, n - 1)

Idx(x, y, w) == y * w + x + 1
PixelsOf(w, h) == (0 .. w - 1) \X (0 .. h - 1)

(***************************************************************************)
(* sharp(...).blur(sigma) on a one-channel raster: libvips gaussblur, a    *)
(* separable integer mask rint(20 * exp(-x^2 / (2 sigma^2))) cut where the *)
(* amplitude falls below 0.2, edges extended by copying, each pass         *)
(* rounded.  The masks of sigma = 1, 2, 3 are tabulated.                   *)
(***************************************************************************)
GaussMask(sigma) ==
  CASE sigma = 1 -> <<12, 20, 12>>
    [] sigma = 2 -> <<6, 12, 18, 20, 18, 12, 6>>
    [] sigma = 3 -> <<5, 8, 12, 16, 19, 20, 19, 16, 12, 8, 5>>

BlurPass(a, w, h, sigma, horizontal) ==
  LET m   == GaussMask(sigma)
      r   == (Len(m) - 1) \div 2
      tot == SumTo(m, Len(m))
      at(x, y) == a[Idx(clamp(x, 0, w - 1), clamp(y, 0, h - 1), w)]
      tap(x, y) == [k \in 1 .. Len(m) |->
                      m[k] * (IF horizontal THEN at(x + k - 1 - r, y)
                                            ELSE at(x, y + k - 1 - r))]
  IN  [i \in 1 .. w * h |->
         LET x == (i - 1) % w
             y == (i - 1) \div w
         IN  clamp(RoundDiv(SumTo(tap(x, y), Len(m)), tot), 0, 255)]

blur(a, w, h, sigma) == BlurPass(BlurPass(a, w, h, sigma, TRUE), w, h, sigma, FALSE)

(***************************************************************************)
(* Masks.  A mask image is [w, h, hasAlpha, alpha, luma].                  *)
(***************************************************************************)
(***************************************************************************)
(* sharp(buf, {raw: {channels: 1}})...raw().toBuffer() without              *)
(* toColourspace('b-w'): the output has one channel in some builds and is   *)
(* converted to three-channel sRGB in others ("the case where it becomes    *)
(* 3ch depending on the environment" of strictComposite step 2.5).  A build *)
(* has one of these for all its calls.                                      *)
(***************************************************************************)
RawChannelCounts == {1, 3}

\* the raw output of a one-channel raster in a build with ch channels:
\* the grey value of each pixel, ch times
rawOut(raster, ch) == [i \in 1 .. Len(raster) * ch |-> raster[((i - 1) \div ch) + 1]]

\* a buffer read as raw {width: w, height: h, channels: 1}: its first w*h bytes
rawIn(buf, w, h) == [i \in 1 .. w * h |-> buf[i]]

\* mutation of computeEditAlpha: luma 200 already counts as white
computeEditAlphaFrom200(m) ==
  LET inv == [i \in 1 .. m.w * m.h |-> 255 - m.alpha[i]]
      hasEdit == \E i \in 1 .. m.w * m.h : inv[i] > 0
  IN  IF m.hasAlpha /\ hasEdit
        THEN inv
        ELSE [i \in 1 .. m.w * m.h |-> IF m.luma[i] >= LumaThreshold THEN 255 ELSE 0]

\* inpaint.ts: computeEditAlpha (the raster part; metadata failures are
\* outcomes of the MaskToBBox step)
computeEditAlpha(m) ==
  LET inv == [i \in 1 .. m.w * m.h |-> 255 - m.alpha[i]]
      hasEdit == \E i \in 1 .. m.w * m.h : inv[i] > 0
  IN  IF m.hasAlpha /\ hasEdit
        THEN inv
        ELSE [i \in 1 .. m.w * m.h |-> IF m.luma[i] > LumaThreshold THEN 255 ELSE 0]

\* inpaint.ts: inflateAlpha1ch
inflateAlpha1ch(alpha, w, h, px, ch) ==
  IF px <= 0 THEN alpha
  ELSE LET blurred == rawOut(blur(rawIn(alpha, w, h), w, h, px), ch)
       IN  [i \in 1 .. w * h |-> IF blurred[i] >= InflateCut THEN 255 ELSE 0]

\* the code's null BBox
NoBBox == [left |-> 0, top |-> 0, width |-> 0, height |-> 0]

\* mutation of bboxFromAlpha: the test for "no pixel found" is missing
bboxFromAlphaNoNull(alpha, w, h) ==
  LET hit == {p \in PixelsOf(w, h) : alpha[Idx(p[1], p[2], w)] > 0}
      xs  == {p[1] : p \in hit} \cup {w}
      ys  == {p[2] : p \in hit} \cup {h}
      minX == CHOOSE x \in xs : \A z \in xs : x <= z
      minY == CHOOSE y \in ys : \A z \in ys : y <= z
  IN  [left |-> minX, top |-> minY, width |-> 1, height |-> 1]

\* mutation of bboxFromAlpha: only pixels of at least half opacity count
bboxFromAlphaHalf(alpha, w, h) ==
  LET hit == {p \in PixelsOf(w, h) : alpha[Idx(p[1], p[2], w)] > 127}
      xs  == {p[1] : p \in hit}
      ys  == {p[2] : p \in hit}
  IN  IF hit = {}
        THEN NoBBox
        ELSE LET minX == CHOOSE x \in xs : \A z \in xs : x <= z
                 minY == CHOOSE y \in ys : \A z \in ys : y <= z
                 maxX == CHOOSE x \in xs : \A z \in xs : x >= z
                 maxY == CHOOSE y \in ys : \A z \in ys : y >= z
             IN  [left |-> minX, top |-> minY,
                  width |-> maxX - minX + 1, height |-> maxY - minY + 1]

\* inpaint.ts: bboxFromAlpha
bboxFromAlpha(alpha, w, h) ==
  LET hit == {p \in PixelsOf(w, h) : alpha[Idx(p[1], p[2], w)] > 0}
      xs  == {p[1] : p \in hit}
      ys  == {p[2] : p \in hit}
      minX == IF hit = {} THEN w ELSE CHOOSE x \in xs : \A z \in xs : x <= z
      minY == IF hit = {} THEN h ELSE CHOOSE y \in ys : \A z \in ys : y <= z
      maxX == IF hit = {} THEN -1 ELSE CHOOSE x \in xs : \A z \in xs : x >= z
      maxY == IF hit = {} THEN -1 ELSE CHOOSE y \in ys : \A z \in ys : y >= z
  IN  IF maxX < minX \/ maxY < minY
        THEN NoBBox
        ELSE [left |-> minX, top |-> minY,
              width |-> maxX - minX + 1, height |-> maxY - minY + 1]

\* mutation of padBBox: the padding is taken off the box instead of added
padBBoxShrink(b, w, h, pad) ==
  LET left   == clamp(b.left + pad, 0, w - 1)
      top    == clamp(b.top + pad, 0, h - 1)
      right  == clamp(b.left + b.width - 1 - pad, 0, w - 1)
      bottom == clamp(b.top + b.height - 1 - pad, 0, h - 1)
  IN  [left |-> left, top |-> top,
       width |-> right - left + 1, height |-> bottom - top + 1]

\* mutation of padBBox: the padded box is not clamped to the raster
padBBoxNoClamp(b, w, h, pad) ==
  [left |-> b.left - pad, top |-> b.top - pad,
   width |-> b.width + 2 * pad, height |-> b.height + 2 * pad]

\* inpaint.ts: padBBox
padBBox(b, w, h, pad) ==
  LET left   == clamp(b.left - pad, 0, w - 1)
      top    == clamp(b.top - pad, 0, h - 1)
      right  == clamp(b.left + b.width - 1 + pad, 0, w - 1)
      bottom == clamp(b.top + b.height - 1 + pad, 0, h - 1)
  IN  [left |-> left, top |-> top,
       width |-> right - left + 1, height |-> bottom - top + 1]

\* inpaint.ts: scaleBBoxTo, with sx = dstW/srcW and sy = dstH/srcH as the
\* route computes them
scaleBBoxTo(b, srcW, srcH, dstW, dstH) ==
  LET left   == clamp(RoundDiv(b.left * dstW, srcW), 0, dstW - 1)
      top    == clamp(RoundDiv(b.top * dstH, srcH), 0, dstH - 1)
      right  == clamp(RoundDiv((b.left + b.width - 1) * dstW, srcW), 0, dstW - 1)
      bottom == clamp(RoundDiv((b.top + b.height - 1) * dstH, srcH), 0, dstH - 1)
  IN  [left |-> left, top |-> top,
       width |-> right - left + 1, height |-> bottom - top + 1]

\* edit.ts 65-67: the bbox in image coordinates
alignBBox(b, maskW, maskH, imgW, imgH) ==
  IF maskW = imgW /\ maskH = imgH THEN b
  ELSE scaleBBoxTo(b, maskW, maskH, imgW, imgH)

\* inpaint.ts: resizeAlphaTo.  sharp's resize with fit 'fill' stretches each
\* axis on its own; the resampling is modelled by its sampling geometry:
\* destination pixel i takes the source pixel under its centre.
resizeAlphaTo(alpha, srcW, srcH, dstW, dstH, ch) ==
  IF srcW = dstW /\ srcH = dstH THEN alpha
  ELSE rawOut([i \in 1 .. dstW * dstH |->
                 LET x == (i - 1) % dstW
                     y == (i - 1) \div dstW
                     sx == Min(((2 * x + 1) * srcW) \div (2 * dstW), srcW - 1)
                     sy == Min(((2 * y + 1) * srcH) \div (2 * dstH), srcH - 1)
                 IN  alpha[Idx(sx, sy, srcW)]], ch)

\* mutation of makePatchSize: the crop is never scaled down
makePatchSizeNoScale(w, h, maxPx) == [width |-> w, height |-> h]

\* inpaint.ts: makePatchDataUrlScaled, the size asked of sharp for the patch
makePatchSize(w, h, maxPx) ==
  IF Max(w, h) > maxPx
    THEN [width |-> RoundDiv(w * maxPx, Max(w, h)),
          height |-> RoundDiv(h * maxPx, Max(w, h))]
    ELSE [width |-> w, height |-> h]

\* sharp's resize({width: tw, height: th, fit: 'inside'}) of a w by h image: the
\* aspect ratio is kept and the image made as large as fits in tw by th, so one
\* shrink factor, the larger of w/tw and h/th, divides both edges; no edge
\* becomes 0
resizeInside(w, h, tw, th) ==
  IF w * th >= h * tw
    THEN [width |-> tw, height |-> Max(1, RoundDiv(h * tw, w))]
    ELSE [width |-> Max(1, RoundDiv(w * th, h)), height |-> th]

\* inpaint.ts: makePatchDataUrlScaled, the size of the patch in the data URL;
\* resize() throws on a width or height that is no positive integer
makePatchDataUrlScaled(w, h, maxPx) ==
  LET asked == makePatchSize(w, h, maxPx)
  IN  IF asked.width < 1 \/ asked.height < 1
        THEN [err |-> "Expected positive integer", asked |-> asked,
              size |-> [width |-> 0, height |-> 0]]
        ELSE [err |-> None, asked |-> asked,
              size |-> resizeInside(w, h, asked.width, asked.height)]

(***************************************************************************)
(* Images.  A decoded image is [w, h, pix], pix a raster of <<r, g, b>>.   *)
(* A returned patch is [w, h, rgb]: a patch of one colour, so that the     *)
(* stretch to the bbox ('fill') is again a patch of that colour.           *)
(***************************************************************************)
Channels == 1 .. 3

\* part_005: _meanRgb over the outer rectangle of _surroundingMean; the mean
\* of channel c is the fraction sum/count
surroundingMean(orig, imgW, imgH, bbox, ring) ==
  LET left   == Max(0, bbox.left - ring)
      top    == Max(0, bbox.top - ring)
      right  == Min(imgW, bbox.left + bbox.width + ring)
      bottom == Min(imgH, bbox.top + bbox.height + ring)
      cw     == right - left
      ch     == bottom - top
      val(c) == [k \in 1 .. cw * ch |->
                   orig.pix[Idx(left + ((k - 1) % cw), top + ((k - 1) \div cw), imgW)][c]]
  IN  [sum |-> [c \in Channels |-> SumTo(val(c), cw * ch)], count |-> cw * ch]

\* mutation of gx: the ratio is used as it is
gxNoClamp(tsum, tcount, s) ==
  [num |-> 1000 * tsum + tcount, den |-> tcount * (1000 * s + 1)]

\* part_005: colorMatchTo, the gain gx(t, s) = clamp((t + 1e-3)/(s + 1e-3), 0.6, 1.6)
\* of one channel, as a fraction [num, den]; t = tsum/tcount, s the patch mean
gx(tsum, tcount, s) ==
  LET num == 1000 * tsum + tcount
      den == tcount * (1000 * s + 1)
  IN  IF 5 * num < 3 * den THEN [num |-> 3, den |-> 5]
      ELSE IF 5 * num > 8 * den THEN [num |-> 8, den |-> 5]
      ELSE [num |-> num, den |-> den]

\* part_005: colorMatchTo, recomb with diag(kr, kg, kb) and the cast to 8 bit
colorMatchTo(rgb, target) ==
  [c \in Channels |->
     LET k == gx(target.sum[c], target.count, rgb[c])
     IN  clamp((rgb[c] * k.num) \div k.den, 0, 255)]

\* inpaint.ts / part_005: strictComposite.  extract at bbox, blur(feather),
\* resize the patch to the bbox, colour match, joinChannel, composite (over).
alphaCropOf(fullAlpha, imgW, bbox) ==
  [k \in 1 .. bbox.width * bbox.height |->
     fullAlpha[Idx(bbox.left + ((k - 1) % bbox.width),
                   bbox.top + ((k - 1) \div bbox.width), imgW)]]

\* strictComposite steps 1 to 2.5: the crop and the blurred crop are raw outputs of
\* ch channels, the blur reads its input as one channel, and step 2.5 keeps
\* channel 0 of the result
extractChannel0(buf, area, ch) == [k \in 1 .. area |-> buf[(k - 1) * ch + 1]]

featheredAlpha(fullAlpha, imgW, bbox, feather, ch) ==
  LET area == bbox.width * bbox.height
      alphaCrop == rawOut(alphaCropOf(fullAlpha, imgW, bbox), ch)
      blurred == IF feather > 0
                   THEN rawOut(blur(rawIn(alphaCrop, bbox.width, bbox.height),
                                    bbox.width, bbox.height, feather), ch)
                   ELSE alphaCrop
  IN  IF Len(blurred) # area THEN extractChannel0(blurred, area, Len(blurred) \div area)
                             ELSE blurred

\* mutation of strictComposite: the blended patch itself is returned, not the
\* base image with the patch laid over it
strictCompositePatchOnly(orig, edited, fullAlpha, bbox, feather, ch) ==
  LET blurred == featheredAlpha(fullAlpha, orig.w, bbox, feather, ch)
      patchMatched == colorMatchTo(edited.rgb,
                                   surroundingMean(orig, orig.w, orig.h, bbox, RingPx))
  IN  [w |-> bbox.width, h |-> bbox.height,
       pix |-> [k \in 1 .. bbox.width * bbox.height |->
                  LET i == Idx(bbox.left + ((k - 1) % bbox.width),
                               bbox.top + ((k - 1) \div bbox.width), orig.w)
                  IN  [c \in Channels |->
                         RoundDiv(patchMatched[c] * blurred[k]
                                    + orig.pix[i][c] * (255 - blurred[k]), 255)]]]

strictComposite(orig, edited, fullAlpha, bbox, feather, ch) ==
  LET imgW == orig.w
      imgH == orig.h
      blurred == featheredAlpha(fullAlpha, imgW, bbox, feather, ch)
      neighMean == surroundingMean(orig, imgW, imgH, bbox, RingPx)
      patchMatched == colorMatchTo(edited.rgb, neighMean)
      inBox(x, y) == /\ bbox.left <= x /\ x < bbox.left + bbox.width
                     /\ bbox.top <= y /\ y < bbox.top + bbox.height
  IN  [w |-> imgW, h |-> imgH,
       pix |-> [i \in 1 .. imgW * imgH |->
                  LET x == (i - 1) % imgW
                      y == (i - 1) \div imgW
                  IN  IF inBox(x, y)
                        THEN LET a == blurred[Idx(x - bbox.left, y - bbox.top, bbox.width)]
                             IN  [c \in Channels |->
                                    RoundDiv(patchMatched[c] * a
                                               + orig.pix[i][c] * (255 - a), 255)]
                        ELSE orig.pix[i]]]

(***************************************************************************)
(* Storage (lib/image-io.ts).  File names are sequences of characters.     *)
(***************************************************************************)
Lower(c) ==
  CASE c = "A" -> "a" [] c = "B" -> "b" [] c = "C" -> "c" [] c = "D" -> "d"
    [] c = "E" -> "e" [] c = "F" -> "f" [] c = "G" -> "g" [] c = "J" -> "j"
    [] c = "N" -> "n" [] c = "P" -> "p" [] c = "W" -> "w" [] OTHER -> c

HexDash == {"a", "b", "c", "d", "e", "f", "0", "1", "2", "3", "4", "5", "6",
            "7", "8", "9", "-"}
SafeExts == {<<"p", "n", "g">>, <<"j", "p", "g">>, <<"j", "p", "e", "g">>,
             <<"w", "e", "b", "p">>}

\* image-io.ts: isSafeFileName, /^[a-f0-9-]+\.(png|jpg|jpeg|webp)$/i
isSafeFileName(name) ==
  \E k \in 2 .. Len(name) :
    /\ name[k] = "."
    /\ \A i \in 1 .. k - 1 : Lower(name[i]) \in HexDash
    /\ [i \in 1 .. Len(name) - k |-> Lower(name[k + i])] \in SafeExts

BaseName   == <<"a", "1", ".", "p", "n", "g">>
AbsentName == <<"b", "2", ".", "p", "n", "g">>
UpperName  == <<"A", "1", ".", "P", "N", "G">>
UnsafeName == <<".", ".", "/", "a", "1", ".", "p", "n", "g">>
NewName    == <<"e", "1", ".", "p", "n", "g">>

\* file contents: a decodable image, or bytes sharp cannot read
BaseImage(d) ==
  [ok |-> TRUE, w |-> d[1], h |-> d[2],
   pix |-> [i \in 1 .. d[1] * d[2] |->
              <<20 + 30 * ((i - 1) % d[1]), 40 + 25 * ((i - 1) \div d[1]), 90>>]]
Corrupt == [ok |-> FALSE, w |-> 0, h |-> 0, pix |-> <<>>]
NoBuf   == [ok |-> FALSE, w |-> -1, h |-> -1, pix |-> <<>>]

NoFiles == [n \in {} |-> Corrupt]
OneFile(n, c) == [x \in {n} |-> c]

Storages ==
  {[generated |-> OneFile(BaseName, BaseImage(d)), edits |-> NoFiles, editsDir |-> FALSE]
     : d \in ImgDims}
  \cup {[generated |-> OneFile(BaseName, Corrupt), edits |-> NoFiles, editsDir |-> FALSE],
        [generated |-> NoFiles, edits |-> OneFile(BaseName, BaseImage(MaskDims)),
         editsDir |-> TRUE]}

\* image-io.ts: readImageByName; err is the message of the error thrown
readImageByName(st, name) ==
  IF ~isSafeFileName(name) THEN [err |-> "bad_file_name", buf |-> NoBuf]
  ELSE IF name \in DOMAIN st.generated THEN [err |-> None, buf |-> st.generated[name]]
  ELSE IF name \in DOMAIN st.edits THEN [err |-> None, buf |-> st.edits[name]]
  ELSE [err |-> "file_not_found", buf |-> NoBuf]

\* image-io.ts: ensureDir(DIR_EDITS)
ensureDir(st) == [st EXCEPT !.editsDir = TRUE]

\* image-io.ts: saveToEdits, fs.writeFile of the new file
writeEdits(st, name, content) ==
  [st EXCEPT !.edits = [x \in DOMAIN st.edits \cup {name} |->
                          IF x = name THEN content ELSE st.edits[x]]]

\* image-io.ts: saveToEdits, the value returned
NoFile == [filename |-> <<>>, url |-> <<>>, mime |-> None]
savedFile(name) ==
  [filename |-> name, url |-> <<"/", "a", "p", "i", "/", "f", "i", "l", "e", "s", "/">> \o name,
   mime |-> "image/png"]

(***************************************************************************)
(* Request bodies.  A body lists the fields it leaves out (absent) and     *)
(* those it gives with a value of the wrong JSON type (wrongType).         *)
(***************************************************************************)
PaintedSets == {P \in SUBSET PixelsOf(MaskDims[1], MaskDims[2]) : Cardinality(P) <= MaxPainted}

\* a canvas mask: white strokes on black, no alpha channel
GrayMask(P) ==
  LET w == MaskDims[1]
      h == MaskDims[2]
  IN  [ok |-> TRUE, w |-> w, h |-> h, hasAlpha |-> FALSE,
       alpha |-> [i \in 1 .. w * h |-> 255],
       luma |-> [i \in 1 .. w * h |->
                   IF <<(i - 1) % w, (i - 1) \div w>> \in P THEN 255 ELSE 0]]

\* an RGBA mask: the strokes are transparent
RgbaMask(P) ==
  LET w == MaskDims[1]
      h == MaskDims[2]
  IN  [ok |-> TRUE, w |-> w, h |-> h, hasAlpha |-> TRUE,
       alpha |-> [i \in 1 .. w * h |->
                    IF <<(i - 1) % w, (i - 1) \div w>> \in P THEN 0 ELSE 255],
       luma |-> [i \in 1 .. w * h |-> 0]]

\* masks with grey levels around the threshold, with partial transparency, and
\* an opaque RGBA mask with white strokes (what a canvas exports)
ToneMasks ==
  LET w == MaskDims[1]
      h == MaskDims[2]
      img(hasAlpha, alpha, luma) ==
        [ok |-> TRUE, w |-> w, h |-> h, hasAlpha |-> hasAlpha, alpha |-> alpha, luma |-> luma]
  IN  {img(FALSE, [i \in 1 .. w * h |-> 255],
           [i \in 1 .. w * h |-> IF i = 1 THEN 201 ELSE IF i = 2 THEN 200 ELSE 0]),
       img(TRUE, [i \in 1 .. w * h |-> IF i = 1 THEN 0 ELSE IF i = 2 THEN 128 ELSE 255],
           [i \in 1 .. w * h |-> 255]),
       img(TRUE, [i \in 1 .. w * h |-> 255],
           [i \in 1 .. w * h |-> IF i \in {1, 2} THEN 255 ELSE 0])}

\* bytes that are no image
Garbage == [ok |-> FALSE, w |-> 0, h |-> 0, hasAlpha |-> FALSE, alpha |-> <<>>, luma |-> <<>>]

\* data URLs: "" , one that parseDataUrl's pattern rejects, one it accepts
MaskUrl(img)  == [empty |-> FALSE, wellFormed |-> TRUE, image |-> img]
MalformedUrl  == [empty |-> FALSE, wellFormed |-> FALSE, image |-> Garbage]
EmptyUrl      == [empty |-> TRUE, wellFormed |-> FALSE, image |-> Garbage]

DefaultBody ==
  [json |-> TRUE, absent |-> {"feather", "padding", "save"}, wrongType |-> {},
   filename |-> BaseName, mask_data_url |-> MaskUrl(GrayMask({<<0, 0>>})),
   prompt |-> "blue", feather |-> 0, padding |-> 0, save |-> FALSE]

Given(b, fields) == [b EXCEPT !.absent = b.absent \ fields]

\* every well-formed body on the stored base image
EditBodies ==
  LET masked == {[DefaultBody EXCEPT !.mask_data_url = MaskUrl(GrayMask(P))]
                   : P \in PaintedSets}
      f1 == masked \cup {[Given(b, {"feather"}) EXCEPT !.feather = f]
                           : b \in masked, f \in 0 .. MaxFeather}
      f2 == f1 \cup {[Given(b, {"padding"}) EXCEPT !.padding = p]
                       : b \in f1, p \in 0 .. MaxPad}
  IN  f2 \cup {[Given(b, {"save"}) EXCEPT !.save = s] : b \in f2, s \in BOOLEAN}

\* the default body with one field changed
OddBodies ==
  {[DefaultBody EXCEPT !.json = FALSE]}
  \cup {[DefaultBody EXCEPT !.filename = n] : n \in {AbsentName, UpperName, UnsafeName}}
  \cup {[DefaultBody EXCEPT !.mask_data_url = u]
          : u \in {MalformedUrl, EmptyUrl, MaskUrl(Garbage), MaskUrl(RgbaMask({<<0, 0>>})),
                   MaskUrl(RgbaMask({}))}
                  \cup {MaskUrl(m) : m \in ToneMasks}}
  \cup {[DefaultBody EXCEPT !.prompt = ""]}
  \cup {[DefaultBody EXCEPT !.absent = @ \cup {f}] : f \in {"filename", "mask_data_url", "prompt"}}
  \cup {[Given(DefaultBody, {f}) EXCEPT !.wrongType = {f}] : f \in {"feather", "padding", "save"}}
  \cup {[Given(DefaultBody, {"feather"}) EXCEPT !.feather = f] : f \in {-1, FeatherLimit + 1}}
  \cup {[Given(DefaultBody, {"padding"}) EXCEPT !.padding = q] : q \in {-1, PaddingLimit + 1}}

Bodies == EditBodies \cup OddBodies

NoBody == [DefaultBody EXCEPT !.json = FALSE, !.absent = {}]

\* zod issues: [code, message]
Issue(code, message) == [code |-> code, message |-> message]

Required(b, f) ==
  IF f \in b.absent THEN {Issue("invalid_type", "Required")}
  ELSE IF f \in b.wrongType THEN {Issue("invalid_type", "Expected, received")}
  ELSE {}

Optional(b, f) ==
  IF f \in b.absent THEN {}
  ELSE IF f \in b.wrongType THEN {Issue("invalid_type", "Expected, received")}
  ELSE {}

InRange(b, f, v, lo, hi) ==
  IF f \in b.absent \cup b.wrongType THEN {}
  ELSE IF v < lo THEN {Issue("too_small", "Number must be greater than or equal to")}
  ELSE IF v > hi THEN {Issue("too_big", "Number must be less than or equal to")}
  ELSE {}

Present(b, f) == f \notin b.absent \cup b.wrongType

\* edit.ts: bodySchema, the issues bodySchema.parse throws
bodyIssues(b) ==
  Required(b, "filename")
  \cup (IF Present(b, "filename") /\ ~isSafeFileName(b.filename)
          THEN {Issue("custom", "bad_file_name")} ELSE {})
  \cup Required(b, "mask_data_url")
  \cup (IF Present(b, "mask_data_url") /\ b.mask_data_url.empty
          THEN {Issue("too_small", "mask_required")} ELSE {})
  \cup Required(b, "prompt")
  \cup (IF Present(b, "prompt") /\ b.prompt = ""
          THEN {Issue("too_small", "prompt_required")} ELSE {})
  \cup Optional(b, "feather") \cup InRange(b, "feather", b.feather, 0, FeatherLimit)
  \cup Optional(b, "padding") \cup InRange(b, "padding", b.padding, 0, PaddingLimit)
  \cup Optional(b, "save")

\* mutation of bodySchema: save defaults to true (as in the recolor route)
bodySchemaSaveTrue(b) ==
  [filename |-> b.filename,
   mask_data_url |-> b.mask_data_url,
   feather |-> IF "feather" \in b.absent THEN DefaultFeather ELSE b.feather,
   padding |-> IF "padding" \in b.absent THEN DefaultPadding ELSE b.padding,
   save |-> IF "save" \in b.absent THEN TRUE ELSE b.save]

\* edit.ts: bodySchema, the value bodySchema.parse returns, defaults filled in
bodySchema(b) ==
  [filename |-> b.filename,
   mask_data_url |-> b.mask_data_url,
   feather |-> IF "feather" \in b.absent THEN DefaultFeather ELSE b.feather,
   padding |-> IF "padding" \in b.absent THEN DefaultPadding ELSE b.padding,
   save |-> IF "save" \in b.absent THEN FALSE ELSE b.save]

NoReq == [filename |-> <<>>, mask_data_url |-> EmptyUrl, feather |-> 0, padding |-> 0,
          save |-> FALSE]

(***************************************************************************)
(* Errors.  An error is [kind, text, status, has]: has is the set of the   *)
(* alternatives of the handler's regular expressions that occur in its     *)
(* message.                                                                *)
(***************************************************************************)
AuthPatterns == {"openrouter_http_401", "unauthorized", "invalid"}
ClientPatterns == {"file_not_found", "bad_file_name", "mask_meta_failed",
                   "image_meta_failed", "empty_mask", "malformed_data_url"}

\* new Error(text)
Plain(text) ==
  [kind |-> "plain", text |-> text, status |-> 0,
   has |-> {text} \cap (AuthPatterns \cup ClientPatterns)]

\* the ZodError of bodySchema.parse: its message is the JSON of the issues
ZodError(issues) ==
  [kind |-> "zod", text |-> "zod_issues", status |-> 0,
   has |-> {"invalid" : i \in {j \in issues : j.code = "invalid_type"}}
           \cup ({i.message : i \in issues} \cap ClientPatterns)]

HttpText(status) ==
  CASE status = 400 -> "openrouter_http_400"
    [] status = 401 -> "openrouter_http_401"
    [] status = 429 -> "openrouter_http_429"
    [] status = 500 -> "openrouter_http_500"

\* openrouter.ts: new Error(`openrouter_http_${res.status}: ${t}`); bodyHas is
\* what the upstream text t contains
HttpError(status, bodyHas) ==
  [kind |-> "http", text |-> HttpText(status), status |-> status,
   has |-> (IF status = 401 THEN {"openrouter_http_401"} ELSE {}) \cup bodyHas]

NoError == [kind |-> None, text |-> None, status |-> 0, has |-> {}]

\* mutation of Is4xx: every HTTP error of the first request is retried
Is4xxOr5xx(e) == e.kind = "http"

\* openrouter.ts: /openrouter_http_4\d\d/.test(message)
Is4xx(e) == e.kind = "http" /\ e.status >= 400 /\ e.status <= 499

\* a response sent by c.json({error, stage}, status)
errorResponse(status, error, stg) ==
  [status |-> status, error |-> error, stage |-> stg, file |-> NoFile]

\* a response sent by c.json({image_base64, mime[, file]})
okResponse(file) == [status |-> 200, error |-> None, stage |-> None, file |-> file]

NoResp == [status |-> 0, error |-> None, stage |-> None, file |-> NoFile]

\* mutation of the catch block: no special case for authentication failures
catchErrorNoAuth(e, stg) ==
  IF e.has \cap ClientPatterns # {}
    THEN errorResponse(400, e.text, stg)
  ELSE errorResponse(500, e.text, stg)

\* edit.ts: the catch block
catchError(e, stg) ==
  IF e.has \cap AuthPatterns # {}
    THEN errorResponse(401, "invalid_openrouter_api_key", stg)
  ELSE IF e.has \cap ClientPatterns # {}
    THEN errorResponse(400, e.text, stg)
  ELSE errorResponse(500, e.text, stg)

(***************************************************************************)
(* The model service.                                                      *)
(***************************************************************************)
\* colours the model paints: two far from the base image, one that the colour
\* match brings to within one level of the base image's first pixel
PatchColours == {<<0, 0, 255>>, <<200, 100, 50>>, <<13, 26, 90>>}

NoPatch == [ok |-> FALSE, w |-> 0, h |-> 0, rgb |-> <<0, 0, 0>>]
Patch(c) == [ok |-> TRUE, w |-> 2, h |-> 2, rgb |-> c]
\* a data URL whose payload is no image
JunkPatch == [ok |-> FALSE, w |-> 0, h |-> 0, rgb |-> <<1, 1, 1>>]

Reply(kind, status, bodyHas, patch) ==
  [kind |-> kind, status |-> status, bodyHas |-> bodyHas, patch |-> patch]

\* what one POST to the model can come back with
ModelReplies ==
  {Reply("image", 200, {}, Patch(c)) : c \in PatchColours}
  \cup {Reply("image", 200, {}, JunkPatch),
        Reply("no_image", 200, {}, NoPatch),
        Reply("bad_url", 200, {}, NoPatch),
        Reply("http", 400, {"invalid"}, NoPatch),
        Reply("http", 401, {}, NoPatch),
        Reply("http", 429, {}, NoPatch),
        Reply("http", 500, {}, NoPatch),
        Reply("network", 0, {}, NoPatch)}

\* openrouter.ts: _postOpenRouter followed by _extractImageDataUrl: the image
\* found, no image (url = null), or the error thrown
postOpenRouter(r) ==
  CASE r.kind = "image"    -> [url |-> TRUE, patch |-> r.patch, err |-> NoError]
    [] r.kind = "no_image" -> [url |-> FALSE, patch |-> NoPatch, err |-> NoError]
    [] r.kind = "bad_url"  -> [url |-> TRUE, patch |-> NoPatch,
                               err |-> Plain("malformed_data_url")]
    [] r.kind = "http"     -> [url |-> FALSE, patch |-> NoPatch,
                               err |-> HttpError(r.status, r.bodyHas)]
    [] r.kind = "network"  -> [url |-> FALSE, patch |-> NoPatch,
                               err |-> Plain("fetch failed")]

NoReply == Reply(None, 0, {}, NoPatch)

\* the frame of orGenerateFromPatch: the payload in flight and, while the
\* second payload is in flight, what the first came back with
NoFrame == [payload |-> None, first |-> NoReply]

(***************************************************************************)
(* The handler of POST /api/edit.                                          *)
(***************************************************************************)
NoMsk == [decoded |-> <<>>, fullAlpha |-> <<>>, w |-> 0, h |-> 0,
          b0 |-> NoBBox, bboxMaskSpace |-> NoBBox]
NoGeo == [imgW |-> 0, imgH |-> 0, alpha |-> <<>>, bbox |-> NoBBox,
          patch |-> [width |-> 0, height |-> 0]]

\* the other components while the handler is looked at alone
NoCall == [name |-> None, w |-> 0, h |-> 0, maxPx |-> 0, alpha |-> <<>>, done |-> FALSE,
           patch |-> [err |-> None, asked |-> [width |-> 0, height |-> 0],
                      size |-> [width |-> 0, height |-> 0]],
           bbox |-> NoBBox]
EditorUnmounted ==
  [mounted |-> FALSE, mask |-> {}, _hist |-> <<>>, _hIndex |-> -1, _strokeDirty |-> FALSE,
   _is_drawing |-> FALSE, _working |-> FALSE, inFlight |-> 0, events |-> 0, last |-> None]
AppUnmounted ==
  [mounted |-> FALSE, _current |-> None, _saved |-> 0, _editing |-> FALSE,
   _modal_phase |-> "edit", _modal_result |-> FALSE, _busy_modal |-> FALSE,
   _saving |-> FALSE, _uploading |-> FALSE, _generating |-> FALSE,
   _history |-> {}, _deleting |-> {},
   savingFor |-> None, modalCall |-> None, editCall |-> FALSE,
   stored |-> {}, saves |-> 0]
NoRequests == [running |-> FALSE, generated |-> <<>>, edits |-> <<>>, nextId |-> 0,
               ops |-> 0, pending |-> {}, reqs |-> <<>>]

Init ==
  /\ storage \in Storages
  /\ storage0 = storage
  /\ pc = "parse"
  /\ stage = "parse"
  /\ body = NoBody
  /\ req = NoReq
  /\ originalBuf = NoBuf
  /\ msk = NoMsk
  /\ geo = NoGeo
  /\ orFrame = NoFrame
  /\ modelCalls = 0
  /\ editedBuf = NoPatch
  /\ outBuf = NoBuf
  /\ resp = NoResp
  /\ writes = 0
  /\ failedOp = None
  /\ thrown = NoError
  /\ trace = <<"parse">>
  /\ rawChannels \in RawChannelCounts
  /\ fn = NoCall
  /\ editor = EditorUnmounted
  /\ app = AppUnmounted
  /\ conc = NoRequests

\* `stage = s`
Enter(s) == stage' = s /\ trace' = Append(trace, s)

\* return c.json(r, status) after operation op failed
Return(r, op) == resp' = r /\ pc' = "done" /\ failedOp' = op /\ thrown' = thrown

\* operation op throws e; the catch block answers with the stage reached
Throw(e, op) ==
  resp' = catchError(e, stage') /\ pc' = "done" /\ failedOp' = op /\ thrown' = e

\* the handler goes on
Goto(p) == pc' = p /\ UNCHANGED <<resp, failedOp, thrown>>

\* edit.ts 46-48: computeEditAlpha, inflateAlpha1ch and bboxFromAlpha of every
\* mask image a request can carry, computed once
MaskImages ==
  {GrayMask(P) : P \in PaintedSets} \cup {RgbaMask(P) : P \in PaintedSets} \cup ToneMasks

MaskTable ==
  [ch \in RawChannelCounts |->
     [m \in MaskImages |->
        LET decoded   == computeEditAlpha(m)
            fullAlpha == inflateAlpha1ch(decoded, m.w, m.h, InflatePx, ch)
        IN  [decoded |-> decoded, fullAlpha |-> fullAlpha,
             b0 |-> bboxFromAlpha(fullAlpha, m.w, m.h)]]]

\* edit.ts 33-36: c.req.json() and bodySchema.parse(body)
Parse ==
  /\ pc = "parse"
  /\ UNCHANGED <<storage, storage0, rawChannels, others, stage, trace, originalBuf, msk, geo, orFrame,
                 modelCalls, editedBuf, outBuf, writes>>
  /\ \E b \in Bodies :
       /\ body' = b
       /\ IF ~b.json
            THEN Throw(Plain("Unexpected token in JSON"), "json") /\ req' = req
          ELSE IF bodyIssues(b) # {}
            THEN Throw(ZodError(bodyIssues(b)), "bodySchema") /\ req' = req
          ELSE Goto("read_base") /\ req' = bodySchema(b)

\* edit.ts 38-39: readImageByName(filename)
ReadBase ==
  /\ pc = "read_base"
  /\ Enter("read_base")
  /\ LET r == readImageByName(storage, req.filename)
     IN  IF r.err # None
           THEN Throw(Plain(r.err), "readImageByName") /\ originalBuf' = originalBuf
           ELSE Goto("parse_mask") /\ originalBuf' = r.buf
  /\ UNCHANGED <<storage, storage0, rawChannels, others, body, req, msk, geo, orFrame, modelCalls,
                 editedBuf, outBuf, writes>>

\* edit.ts 41-43: parseDataUrl(mask_data_url)
ParseMask ==
  /\ pc = "parse_mask"
  /\ Enter("parse_mask")
  /\ IF ~req.mask_data_url.wellFormed
       THEN Throw(Plain("malformed_data_url"), "parseDataUrl")
       ELSE Goto("mask_to_bbox")
  /\ UNCHANGED <<storage, storage0, rawChannels, others, body, req, originalBuf, msk, geo, orFrame,
                 modelCalls, editedBuf, outBuf, writes>>

\* edit.ts 45-55: computeEditAlpha, inflateAlpha1ch, bboxFromAlpha, padBBox and
\* the metadata of the base image
MaskToBBox ==
  /\ pc = "mask_to_bbox"
  /\ Enter("mask_to_bbox")
  /\ LET m == req.mask_data_url.image
     IN  IF ~m.ok
           THEN /\ Throw(Plain("Input buffer contains unsupported image format"),
                         "computeEditAlpha")
                /\ msk' = msk /\ geo' = geo
         ELSE
           LET decoded   == MaskTable[rawChannels][m].decoded
               fullAlpha == MaskTable[rawChannels][m].fullAlpha
               b0        == MaskTable[rawChannels][m].b0
               decodedMsk == [NoMsk EXCEPT !.decoded = decoded, !.fullAlpha = fullAlpha,
                                           !.w = m.w, !.h = m.h, !.b0 = b0]
           IN  IF b0 = NoBBox
                 THEN /\ Return(errorResponse(400, "empty_mask", stage'), "bboxFromAlpha")
                      /\ msk' = decodedMsk /\ geo' = geo
               ELSE IF ~originalBuf.ok
                 THEN /\ Throw(Plain("Input buffer contains unsupported image format"),
                               "metadata")
                      /\ msk' = [decodedMsk EXCEPT
                                   !.bboxMaskSpace = padBBox(b0, m.w, m.h, req.padding)]
                      /\ geo' = geo
               ELSE /\ Goto("align_mask_to_image")
                    /\ msk' = [decodedMsk EXCEPT
                                 !.bboxMaskSpace = padBBox(b0, m.w, m.h, req.padding)]
                    /\ geo' = [geo EXCEPT !.imgW = originalBuf.w, !.imgH = originalBuf.h]
  /\ UNCHANGED <<storage, storage0, rawChannels, others, body, req, originalBuf, orFrame, modelCalls,
                 editedBuf, outBuf, writes>>

\* edit.ts 57-68: resizeAlphaTo and scaleBBoxTo when the sizes differ
AlignMaskToImage ==
  /\ pc = "align_mask_to_image"
  /\ Enter("align_mask_to_image")
  /\ LET same == msk.w = geo.imgW /\ msk.h = geo.imgH
     IN  geo' = [geo EXCEPT
                   !.alpha = IF same THEN msk.fullAlpha
                             ELSE resizeAlphaTo(msk.fullAlpha, msk.w, msk.h,
                                                geo.imgW, geo.imgH, rawChannels),
                   !.bbox = alignBBox(msk.bboxMaskSpace, msk.w, msk.h,
                                      geo.imgW, geo.imgH)]
  /\ Goto("make_patch")
  /\ UNCHANGED <<storage, storage0, rawChannels, others, body, req, originalBuf, msk, orFrame, modelCalls,
                 editedBuf, outBuf, writes>>

\* edit.ts 71-72: makePatchDataUrlScaled(originalBuf, bbox, 1024)
MakePatch ==
  /\ pc = "make_patch"
  /\ Enter("make_patch")
  /\ LET size == makePatchSize(geo.bbox.width, geo.bbox.height, PatchMaxEdge)
     IN  IF size.width < 1 \/ size.height < 1
           THEN Throw(Plain("Expected positive integer for width"), "makePatchDataUrlScaled")
                /\ geo' = geo
           ELSE Goto("openrouter") /\ geo' = [geo EXCEPT !.patch = size]
  /\ UNCHANGED <<storage, storage0, rawChannels, others, body, req, originalBuf, msk, orFrame, modelCalls,
                 editedBuf, outBuf, writes>>

\* edit.ts 76-83: the patch is back; the length of the alpha is checked
Prechecked(patch) ==
  /\ editedBuf' = patch
  /\ orFrame' = NoFrame
  /\ IF Len(geo.alpha) # geo.imgW * geo.imgH
       THEN Return(errorResponse(500, "alpha_size_mismatch", "composite_precheck"),
                   "precheck")
       ELSE Goto("composite")

\* edit.ts 74-75, openrouter.ts 47-66 and 25-37: orGenerateFromPatch posts payloadA
OpenRouter ==
  /\ pc = "openrouter"
  /\ Enter("openrouter")
  /\ \E apiKey \in BOOLEAN :
       IF ~apiKey
         THEN /\ Throw(Plain("OPENROUTER_API_KEY not set"), "orGenerateFromPatch")
              /\ UNCHANGED <<orFrame, modelCalls>>
         ELSE /\ Goto("await_model")
              /\ orFrame' = [payload |-> "A", first |-> NoReply]
              /\ modelCalls' = modelCalls + 1
  /\ UNCHANGED <<storage, storage0, rawChannels, others, body, req, originalBuf, msk, geo, editedBuf,
                 outBuf, writes>>

\* openrouter.ts 66-91: the answer to payloadA; an image is returned, a 4xx
\* error or an answer without image posts payloadB, another error is thrown
ReplyA ==
  /\ pc = "await_model" /\ orFrame.payload = "A"
  /\ UNCHANGED <<stage, trace>>
  /\ \E r \in ModelReplies :
       LET j == postOpenRouter(r)
       IN  IF j.err = NoError /\ j.url
             THEN Prechecked(j.patch) /\ UNCHANGED modelCalls
           ELSE IF j.err = NoError \/ Is4xx(j.err)
             THEN /\ Goto("await_model")
                  /\ orFrame' = [payload |-> "B", first |-> r]
                  /\ modelCalls' = modelCalls + 1
                  /\ UNCHANGED editedBuf
           ELSE /\ Throw(j.err, "orGenerateFromPatch")
                /\ orFrame' = NoFrame
                /\ UNCHANGED <<modelCalls, editedBuf>>
  /\ UNCHANGED <<storage, storage0, rawChannels, others, body, req, originalBuf, msk, geo, outBuf, writes>>

\* openrouter.ts 91-94: the answer to payloadB
ReplyB ==
  /\ pc = "await_model" /\ orFrame.payload = "B"
  /\ UNCHANGED <<stage, trace>>
  /\ \E r \in ModelReplies :
       LET j == postOpenRouter(r)
       IN  IF j.err # NoError
             THEN /\ Throw(j.err, "orGenerateFromPatch")
                  /\ orFrame' = NoFrame /\ UNCHANGED editedBuf
           ELSE IF ~j.url
             THEN /\ Throw(Plain("no_image_in_response"), "orGenerateFromPatch")
                  /\ orFrame' = NoFrame /\ UNCHANGED editedBuf
           ELSE Prechecked(j.patch)
  /\ UNCHANGED <<storage, storage0, rawChannels, others, body, req, originalBuf, msk, geo, modelCalls,
                 outBuf, writes>>

\* sharp's extract accepts the area
ExtractOk(b, w, h) ==
  /\ b.left >= 0 /\ b.top >= 0 /\ b.width >= 1 /\ b.height >= 1
  /\ b.left + b.width <= w /\ b.top + b.height <= h

\* edit.ts 85-86: strictComposite
Composite ==
  /\ pc = "composite"
  /\ Enter("composite")
  /\ IF ~ExtractOk(geo.bbox, geo.imgW, geo.imgH)
       THEN Throw(Plain("extract_area: bad extract area"), "strictComposite")
            /\ outBuf' = outBuf
     ELSE IF ~editedBuf.ok
       THEN Throw(Plain("Input buffer contains unsupported image format"),
                  "strictComposite")
            /\ outBuf' = outBuf
     ELSE /\ Goto("save_or_return")
          /\ outBuf' = strictComposite(originalBuf, editedBuf, geo.alpha, geo.bbox,
                                       req.feather, rawChannels)
  /\ UNCHANGED <<storage, storage0, rawChannels, others, body, req, originalBuf, msk, geo, orFrame,
                 modelCalls, editedBuf, writes>>

\* edit.ts 87-92 and image-io.ts 143: with save, saveToEdits makes the
\* directory (mkdir may be refused); without, the image is returned
SaveOrReturn ==
  /\ pc = "save_or_return"
  /\ Enter("save_or_return")
  /\ IF req.save
       THEN \E made \in BOOLEAN :
              IF made
                THEN Goto("write_file") /\ storage' = ensureDir(storage)
                ELSE /\ Throw(Plain("EACCES: permission denied, mkdir"), "saveToEdits")
                     /\ UNCHANGED storage
       ELSE Return(okResponse(NoFile), None) /\ UNCHANGED storage
  /\ UNCHANGED <<storage0, rawChannels, others, body, req, originalBuf, msk, geo, orFrame, modelCalls,
                 editedBuf, outBuf, writes>>

\* image-io.ts 144-149 and edit.ts 90: fs.writeFile.  The file is written and
\* the response names it; or the open is refused and nothing is created; or
\* the write fails after the file was created, which leaves a truncated file.
\* A rejected writeFile is caught by the handler's catch block.
WriteFile ==
  /\ pc = "write_file"
  /\ UNCHANGED <<storage0, rawChannels, others, stage, trace, body, req, originalBuf, msk, geo, orFrame,
                 modelCalls, editedBuf, outBuf>>
  /\ \E outcome \in {"written", "refused", "truncated"} :
       CASE outcome = "written" ->
              /\ storage' = writeEdits(storage, NewName, outBuf)
              /\ writes' = writes + 1
              /\ Return(okResponse(savedFile(NewName)), None)
         [] outcome = "refused" ->
              /\ UNCHANGED <<storage, writes>>
              /\ Throw(Plain("EACCES: permission denied, open"), "saveToEdits")
         [] outcome = "truncated" ->
              /\ storage' = writeEdits(storage, NewName, Corrupt)
              /\ writes' = writes + 1
              /\ Throw(Plain("ENOSPC: no space left on device, write"), "saveToEdits")

\* the steps the server takes by itself
Handler ==
  \/ Parse
  \/ ReadBase
  \/ ParseMask
  \/ MaskToBBox
  \/ AlignMaskToImage
  \/ MakePatch
  \/ OpenRouter
  \/ Composite
  \/ SaveOrReturn
  \/ WriteFile

\* the steps that need the model service to answer
Model == ReplyA \/ ReplyB

Next ==
  \/ Parse
  \/ ReadBase
  \/ ParseMask
  \/ MaskToBBox
  \/ AlignMaskToImage
  \/ MakePatch
  \/ OpenRouter
  \/ ReplyA
  \/ ReplyB
  \/ Composite
  \/ SaveOrReturn
  \/ WriteFile

Spec == Init /\ [][Next]_vars

\* the server runs every step that is enabled; nothing makes the model answer
LiveSpec == Init /\ [][Next]_vars /\ WF_vars(Handler)

(***************************************************************************)
(* The raster helpers called on their own.                                 *)
(***************************************************************************)
\* the handler before a request has arrived
ServerIdle ==
  /\ storage = [generated |-> OneFile(BaseName, BaseImage(MaskDims)), edits |-> NoFiles,
                editsDir |-> FALSE]
  /\ storage0 = storage
  /\ pc = "parse"
  /\ stage = "parse"
  /\ body = NoBody
  /\ req = NoReq
  /\ originalBuf = NoBuf
  /\ msk = NoMsk
  /\ geo = NoGeo
  /\ orFrame = NoFrame
  /\ modelCalls = 0
  /\ editedBuf = NoPatch
  /\ outBuf = NoBuf
  /\ resp = NoResp
  /\ writes = 0
  /\ failedOp = None
  /\ thrown = NoError
  /\ trace = <<"parse">>
  /\ rawChannels = 1

\* boxes and maximum edges makePatchDataUrlScaled is called with: every small box,
\* and elongated boxes of a large image
PatchBoxes ==
  ((1 .. MaxBox) \X (1 .. MaxBox))
    \cup {<<1, 4096>>, <<4096, 1>>, <<9, 4000>>, <<4000, 9>>, <<3, 2048>>, <<2048, 1536>>}
PatchMaxEdges == {1, 4, 7, PatchMaxEdge}

\* alpha buffers bboxFromAlpha is called with
AlphaDims == {<<2, 3>>, <<3, 2>>, <<4, 1>>, <<1, 1>>}
AlphaValues == {0, 1, 255}
AlphaCalls ==
  UNION {{[NoCall EXCEPT !.name = "bboxFromAlpha", !.w = d[1], !.h = d[2], !.alpha = a]
            : a \in [1 .. d[1] * d[2] -> AlphaValues]} : d \in AlphaDims}
  \cup {[NoCall EXCEPT !.name = "bboxFromAlpha", !.w = 3, !.h = 3, !.alpha = a]
           : a \in [1 .. 9 -> {0, 255}]}

PatchCalls ==
  {[NoCall EXCEPT !.name = "makePatchDataUrlScaled", !.w = b[1], !.h = b[2], !.maxPx = m]
     : b \in PatchBoxes, m \in PatchMaxEdges}

HelperInit ==
  /\ ServerIdle
  /\ fn \in PatchCalls \cup AlphaCalls
  /\ editor = EditorUnmounted
  /\ app = AppUnmounted
  /\ conc = NoRequests

CallMakePatchDataUrlScaled ==
  /\ fn.name = "makePatchDataUrlScaled" /\ ~fn.done
  /\ fn' = [fn EXCEPT !.done = TRUE,
                       !.patch = makePatchDataUrlScaled(fn.w, fn.h, fn.maxPx)]
  /\ UNCHANGED <<serverVars, editor, app, conc>>

CallBBoxFromAlpha ==
  /\ fn.name = "bboxFromAlpha" /\ ~fn.done
  /\ fn' = [fn EXCEPT !.done = TRUE, !.bbox = bboxFromAlpha(fn.alpha, fn.w, fn.h)]
  /\ UNCHANGED <<serverVars, editor, app, conc>>

HelperNext ==
  \/ CallMakePatchDataUrlScaled
  \/ CallBBoxFromAlpha

HelperSpec == HelperInit /\ [][HelperNext]_vars

(***************************************************************************)
(* Edit requests side by side with each other and with upload, save and    *)
(* delete requests on one storage.  File names are numbers, randomUUID     *)
(* gives the next unused one.  A file's content is an image, told by the   *)
(* upload it came from and the number of edits laid over it, or the part   *)
(* of an image that fs.writeFile has written so far.                       *)
(***************************************************************************)
EditIds == {1, 2}

Image(base, n) == [kind |-> "image", base |-> base, edits |-> n]
Partial == [kind |-> "partial", base |-> None, edits |-> 0]
NoContent == [kind |-> None, base |-> None, edits |-> 0]

\* the composited image of an edit on base image c
Edited(c) == [c EXCEPT !.edits = @ + 1]

IdleEdit ==
  [pc |-> "idle", filename |-> 0, save |-> FALSE, originalBuf |-> NoContent,
   modelOk |-> FALSE, outBuf |-> NoContent, saved |-> 0,
   resp |-> [status |-> 0, error |-> None, image |-> NoContent, file |-> 0],
   seen |-> {}]

ConcInit ==
  /\ ServerIdle
  /\ fn = NoCall
  /\ editor = EditorUnmounted
  /\ app = AppUnmounted
  /\ conc = [running |-> TRUE,
              generated |-> <<Image("a", 0)>>,
              edits |-> [n \in {2} |-> Image("b", 0)],
              nextId |-> 3, ops |-> 0, pending |-> {},
              reqs |-> [r \in EditIds |-> IdleEdit]]

Snapshot == [generated |-> conc.generated, edits |-> conc.edits]

\* c.json of the edit handler
EditResponse(status, error, image, file) ==
  [status |-> status, error |-> error, image |-> image, file |-> file]

\* a compositor that reads the file anew
compositeBaseReread(buf, st, name) ==
  IF name \in DOMAIN st.generated THEN st.generated[name]
  ELSE IF name \in DOMAIN st.edits THEN st.edits[name]
  ELSE buf

\* edit.ts 85-86: the compositor is handed originalBuf, the bytes read at read_base
compositeBase(buf, st, name) == buf

\* edit.ts 33-38: a request arrives and is parsed; it names one of the two
\* stored files or a file not stored yet
EditArrive(r) ==
  /\ conc.reqs[r].pc = "idle"
  /\ \E name \in {1, 2, 3}, save \in BOOLEAN :
       conc' = [conc EXCEPT !.reqs[r] = [@ EXCEPT !.pc = "read_generated",
                                                 !.filename = name, !.save = save]]
  /\ UNCHANGED <<serverVars, fn, editor, app>>

\* image-io.ts readImageByName: fs.readFile in generated/
EditReadGenerated(r) ==
  LET q == conc.reqs[r]
  IN  /\ q.pc = "read_generated"
      /\ conc' = [conc EXCEPT !.reqs[r] =
                    IF q.filename \in DOMAIN conc.generated
                      THEN [q EXCEPT !.pc = "pipeline",
                                     !.originalBuf = conc.generated[q.filename],
                                     !.seen = @ \cup {Snapshot}]
                      ELSE [q EXCEPT !.pc = "read_edits", !.seen = @ \cup {Snapshot}]]
      /\ UNCHANGED <<serverVars, fn, editor, app>>

\* image-io.ts readImageByName: fs.readFile in edits/, or file_not_found
EditReadEdits(r) ==
  LET q == conc.reqs[r]
  IN  /\ q.pc = "read_edits"
      /\ conc' = [conc EXCEPT !.reqs[r] =
                    IF q.filename \in DOMAIN conc.edits
                      THEN [q EXCEPT !.pc = "pipeline",
                                     !.originalBuf = conc.edits[q.filename],
                                     !.seen = @ \cup {Snapshot}]
                      ELSE [q EXCEPT !.pc = "done", !.seen = @ \cup {Snapshot},
                                     !.resp = EditResponse(400, "file_not_found",
                                                           NoContent, 0)]]
      /\ UNCHANGED <<serverVars, fn, editor, app>>

\* edit.ts 41-86: the stages from parse_mask to composite, which work on
\* originalBuf, the request body and the model's answer only
EditPipeline(r) ==
  LET q == conc.reqs[r]
      base == compositeBase(q.originalBuf, Snapshot, q.filename)
  IN  /\ q.pc = "pipeline"
      /\ \E modelOk \in BOOLEAN :
           conc' = [conc EXCEPT !.reqs[r] =
                      IF base.kind # "image"
                        THEN [q EXCEPT !.pc = "done", !.modelOk = modelOk,
                                       !.resp = EditResponse(500, "unsupported image format",
                                                             NoContent, 0)]
                      ELSE IF ~modelOk
                        THEN [q EXCEPT !.pc = "done", !.modelOk = modelOk,
                                       !.resp = EditResponse(500, "no_image_in_response",
                                                             NoContent, 0)]
                      ELSE [q EXCEPT !.pc = "save_or_return", !.modelOk = modelOk,
                                     !.outBuf = Edited(base)]]
      /\ UNCHANGED <<serverVars, fn, editor, app>>

\* edit.ts 87-92 and image-io.ts saveToEdits: randomUUID names the file and
\* fs.writeFile starts writing it, or the image is returned unsaved
EditSaveOrReturn(r) ==
  LET q == conc.reqs[r]
  IN  /\ q.pc = "save_or_return"
      /\ IF q.save
           THEN conc' = [conc EXCEPT
                           !.edits = [n \in DOMAIN conc.edits \cup {conc.nextId} |->
                                        IF n = conc.nextId THEN Partial ELSE conc.edits[n]],
                           !.nextId = @ + 1,
                           !.reqs[r] = [q EXCEPT !.pc = "writing", !.saved = conc.nextId]]
           ELSE conc' = [conc EXCEPT !.reqs[r] =
                           [q EXCEPT !.pc = "done",
                                     !.resp = EditResponse(200, None, q.outBuf, 0)]]
      /\ UNCHANGED <<serverVars, fn, editor, app>>

\* image-io.ts saveToEdits: fs.writeFile has written the file, which may have
\* been unlinked meanwhile; the response names it
EditWritten(r) ==
  LET q == conc.reqs[r]
  IN  /\ q.pc = "writing"
      /\ conc' = [conc EXCEPT
                    !.edits = [n \in DOMAIN conc.edits |->
                                 IF n = q.saved THEN q.outBuf ELSE conc.edits[n]],
                    !.reqs[r] = [q EXCEPT !.pc = "done",
                                          !.resp = EditResponse(200, None, q.outBuf,
                                                                q.saved)]]
      /\ UNCHANGED <<serverVars, fn, editor, app>>

\* POST /api/upload and /api/save: fs.writeFile starts writing a new file of
\* generated/ under a fresh name
UploadBegins ==
  /\ conc.running /\ conc.ops < MaxEnvOps
  /\ conc' = [conc EXCEPT
                !.generated = [n \in DOMAIN conc.generated \cup {conc.nextId} |->
                                 IF n = conc.nextId THEN Partial ELSE conc.generated[n]],
                !.pending = @ \cup {conc.nextId},
                !.nextId = @ + 1,
                !.ops = @ + 1]
  /\ UNCHANGED <<serverVars, fn, editor, app>>

\* the upload's fs.writeFile has written the file
UploadWritten ==
  /\ \E n \in conc.pending :
       conc' = [conc EXCEPT
                  !.generated = [k \in DOMAIN conc.generated |->
                                   IF k = n THEN Image("u", 0) ELSE conc.generated[k]],
                  !.pending = @ \ {n}]
  /\ UNCHANGED <<serverVars, fn, editor, app>>

\* DELETE /api/images/:filename: the file is unlinked from edits/, else from
\* generated/
Delete ==
  /\ conc.running /\ conc.ops < MaxEnvOps
  /\ \E n \in DOMAIN conc.generated \cup DOMAIN conc.edits :
       conc' = [conc EXCEPT
                  !.edits = [k \in DOMAIN conc.edits \ {n} |-> conc.edits[k]],
                  !.generated = IF n \in DOMAIN conc.edits THEN conc.generated
                                ELSE [k \in DOMAIN conc.generated \ {n} |->
                                        conc.generated[k]],
                  !.ops = @ + 1]
  /\ UNCHANGED <<serverVars, fn, editor, app>>

ConcNext ==
  \/ \E r \in EditIds : EditArrive(r)
  \/ \E r \in EditIds : EditReadGenerated(r)
  \/ \E r \in EditIds : EditReadEdits(r)
  \/ \E r \in EditIds : EditPipeline(r)
  \/ \E r \in EditIds : EditSaveOrReturn(r)
  \/ \E r \in EditIds : EditWritten(r)
  \/ UploadBegins
  \/ UploadWritten
  \/ Delete

ConcSpec == ConcInit /\ [][ConcNext]_vars

(***************************************************************************)
(* The mask editor, InpaintingEditor.vue.  The mask canvas is the set of   *)
(* brush dabs painted on it, the empty set being the all-black mask.       *)
(***************************************************************************)
UNDO_MAX == 30

Dabs == {1, 2}

\* _snapshot(true): the mask is pushed onto the history, after the redo tail
\* is cut off, and the oldest entry is dropped beyond UNDO_MAX
_snapshot(e) ==
  LET kept == IF e._hIndex < Len(e._hist) - 1 THEN SubSeq(e._hist, 1, e._hIndex + 1)
              ELSE e._hist
      pushed == Append(kept, e.mask)
      hist == IF Len(pushed) > UNDO_MAX THEN Tail(pushed) ELSE pushed
  IN  [e EXCEPT !._hist = hist, !._hIndex = Len(hist) - 1]

\* _draw_stroke: a dab of the brush, which marks the stroke dirty
_draw_stroke(e, d) == [e EXCEPT !.mask = @ \cup {d}, !._strokeDirty = TRUE]

\* _apply_hist_at: history entry i (counted from 0) is put back on the canvas
_apply_hist_at(e, i) ==
  IF i + 1 \in DOMAIN e._hist THEN [e EXCEPT !.mask = e._hist[i + 1]] ELSE e

\* _clear_mask: the mask is filled black and the history gets the black mask
_clear_mask(e) == _snapshot([e EXCEPT !.mask = {}])

\* _has_strokes: some sampled pixel of the mask is bright
_has_strokes(e) == e.mask # {}

\* the editor once mounted and the image loaded: _resize_canvases(true)
EditorInit ==
  /\ ServerIdle
  /\ fn = NoCall
  /\ app = AppUnmounted
  /\ conc = NoRequests
  /\ editor = _snapshot([EditorUnmounted EXCEPT !.mounted = TRUE])

\* one more event of the user, named after the handler or DOM event
Event(e, name) == [e EXCEPT !.events = @ + 1, !.last = name]

_on_pointer_down ==
  /\ editor.mounted /\ editor.events < MaxEvents
  /\ \E d \in Dabs :
       editor' = Event(_draw_stroke([_snapshot(editor) EXCEPT !._strokeDirty = FALSE,
                                                             !._is_drawing = TRUE], d),
                       "pointerdown")
  /\ UNCHANGED <<serverVars, fn, app, conc>>

_on_pointer_move ==
  /\ editor.mounted /\ editor.events < MaxEvents
  /\ \E d \in Dabs :
       editor' = Event(IF editor._is_drawing THEN _draw_stroke(editor, d) ELSE editor,
                       "pointermove")
  /\ UNCHANGED <<serverVars, fn, app, conc>>

\* pointerup, pointercancel and pointerleave are all bound to _on_pointer_up
_on_pointer_up ==
  /\ editor.mounted /\ editor.events < MaxEvents
  /\ \E name \in {"pointerup", "pointercancel", "pointerleave"} :
       LET up == [editor EXCEPT !._is_drawing = FALSE]
       IN  editor' = Event(IF up._strokeDirty THEN _snapshot(up) ELSE up, name)
  /\ UNCHANGED <<serverVars, fn, app, conc>>

_undo_once ==
  /\ editor.mounted /\ editor.events < MaxEvents
  /\ editor' = Event(IF editor._hIndex <= 0 THEN editor
                      ELSE _apply_hist_at([editor EXCEPT !._hIndex = @ - 1],
                                          editor._hIndex - 1),
                      "undo")
  /\ UNCHANGED <<serverVars, fn, app, conc>>

_redo_once ==
  /\ editor.mounted /\ editor.events < MaxEvents
  /\ editor' = Event(IF editor._hIndex >= Len(editor._hist) - 1 THEN editor
                      ELSE _apply_hist_at([editor EXCEPT !._hIndex = @ + 1],
                                          editor._hIndex + 1),
                      "redo")
  /\ UNCHANGED <<serverVars, fn, app, conc>>

\* the clear key of _on_key
ClearKey ==
  /\ editor.mounted /\ editor.events < MaxEvents
  /\ editor' = Event(_clear_mask(editor), "clear")
  /\ UNCHANGED <<serverVars, fn, app, conc>>

\* _apply_edit up to its await: with an empty mask it alerts and returns,
\* otherwise _working is set and _edit_image is called
_apply_edit(e) ==
  IF ~_has_strokes(e) THEN e
  ELSE [e EXCEPT !._working = TRUE, !.inFlight = @ + 1]

\* a click on the apply button, which is disabled while _working
ApplyButton ==
  /\ editor.mounted /\ editor.events < MaxEvents
  /\ ~editor._working
  /\ editor' = Event(_apply_edit(editor), "apply")
  /\ UNCHANGED <<serverVars, fn, app, conc>>

\* _on_prompt_keydown: Ctrl/Cmd+Enter in the prompt field calls _apply_edit
_on_prompt_keydown ==
  /\ editor.mounted /\ editor.events < MaxEvents
  /\ editor' = Event(_apply_edit(editor), "enter")
  /\ UNCHANGED <<serverVars, fn, app, conc>>

\* _apply_edit after its await: done is emitted and the mask cleared, or the
\* failure is alerted; _working is reset in either case
EditImageSettles ==
  /\ editor.mounted /\ editor.inFlight > 0
  /\ \E ok \in BOOLEAN :
       LET after == IF ok THEN _clear_mask(editor) ELSE editor
       IN  editor' = [after EXCEPT !._working = FALSE, !.inFlight = @ - 1,
                                   !.last = "settled"]
  /\ UNCHANGED <<serverVars, fn, app, conc>>

EditorNext ==
  \/ _on_pointer_down
  \/ _on_pointer_move
  \/ _on_pointer_up
  \/ _undo_once
  \/ _redo_once
  \/ ClearKey
  \/ ApplyButton
  \/ _on_prompt_keydown
  \/ EditImageSettles

EditorSpec == EditorInit /\ [][EditorNext]_vars

(***************************************************************************)
(* The app shell, App.vue.  Stored files are numbered, 0 standing for no   *)
(* file; _current is a data URL, the URL of a stored file, or nothing;     *)
(* _modal_result is told by whether it is set.  A call of the backend is   *)
(* in flight from the handler step that starts it to the step in which it  *)
(* settles and the handler runs on.  The modal covers the page, whose      *)
(* controls are used while the modal is closed.                            *)
(***************************************************************************)
\* the shell once mounted and the history of one stored file loaded
AppInit ==
  /\ ServerIdle
  /\ fn = NoCall
  /\ editor = EditorUnmounted
  /\ conc = NoRequests
  /\ app = [AppUnmounted EXCEPT !.mounted = TRUE, !._history = {1}, !.stored = {1}]

\* the name the backend gives the next file it stores
NewFile(a) == a.saves + 2

\* the backend has stored a new file
Stored(a) == [a EXCEPT !.stored = @ \cup {NewFile(a)}, !.saves = @ + 1]

\* template line 470: the modal shows the editor, otherwise the result view
EditorShown(a) == a._modal_phase = "edit" /\ a._saved # 0

\* _is_from_history
_is_from_history(a) == a._saved # 0 /\ a._current = "url"

\* the mask editor instance that started the edit call is gone once the
\* modal no longer shows the editor under the same key
DropEditor(before, after) ==
  IF before._editing /\ EditorShown(before)
       /\ after._editing /\ EditorShown(after) /\ after._saved = before._saved
    THEN after
    ELSE [after EXCEPT !.editCall = FALSE]

\* _on_generate up to its await
_on_generate ==
  /\ app.mounted /\ ~app._editing /\ ~app._generating
  /\ app' = [app EXCEPT !._generating = TRUE]
  /\ UNCHANGED <<serverVars, fn, editor, conc>>

\* _on_generate after its await
GenerateSettles ==
  /\ app.mounted /\ app._generating
  /\ \E ok \in BOOLEAN :
       LET got == IF ok THEN [app EXCEPT !._current = "data", !._saved = 0,
                                         !._modal_result = FALSE]
                  ELSE app
       IN  app' = DropEditor(app, [got EXCEPT !._generating = FALSE])
  /\ UNCHANGED <<serverVars, fn, editor, conc>>

\* _on_pick_file, _on_drop, _on_paste: _ingest_data_url up to its await
_ingest_data_url ==
  /\ app.mounted /\ ~app._editing /\ ~app._uploading
  /\ app.saves < MaxSaves
  /\ app' = [app EXCEPT !._uploading = TRUE]
  /\ UNCHANGED <<serverVars, fn, editor, conc>>

\* _ingest_data_url after its await
IngestSettles ==
  /\ app.mounted /\ app._uploading
  /\ \E ok \in {b \in BOOLEAN : b => app.saves < MaxSaves} :
       LET got == IF ok THEN [Stored(app) EXCEPT !._saved = NewFile(app),
                                                 !._current = "url",
                                                 !._modal_result = FALSE]
                  ELSE app
       IN  app' = DropEditor(app, [got EXCEPT !._uploading = FALSE])
  /\ UNCHANGED <<serverVars, fn, editor, conc>>

\* _on_save_current up to its await
_on_save_current ==
  /\ app.mounted /\ ~app._editing
  /\ ~app._saving /\ app._current # None /\ ~_is_from_history(app)
  /\ app.saves < MaxSaves
  /\ app' = IF app._current = "data"
              THEN [app EXCEPT !._saving = TRUE, !.savingFor = "save"]
              ELSE app
  /\ UNCHANGED <<serverVars, fn, editor, conc>>

\* the save of _on_save_current or _open_editor_smart settles, the history
\* is reloaded, and _open_editor_smart opens the modal
SaveSettles ==
  /\ app.mounted /\ app._saving
  /\ \E ok \in {b \in BOOLEAN : b => app.saves < MaxSaves} :
       LET saved == [Stored(app) EXCEPT !._saved = NewFile(app), !._current = "url",
                                        !._history = app.stored \cup {NewFile(app)}]
           got == IF ~ok THEN app
                  ELSE IF app.savingFor = "open"
                    THEN [saved EXCEPT !._modal_result = FALSE, !._modal_phase = "edit",
                                       !._editing = TRUE]
                  ELSE saved
       IN  app' = DropEditor(app, [got EXCEPT !._saving = FALSE, !.savingFor = None])
  /\ UNCHANGED <<serverVars, fn, editor, conc>>

\* _open_from_history
_open_from_history ==
  /\ app.mounted /\ ~app._editing
  /\ \E it \in app._history :
       app' = [app EXCEPT !._saved = it, !._current = "url", !._modal_result = FALSE,
                          !._editing = TRUE, !._modal_phase = "edit"]
  /\ UNCHANGED <<serverVars, fn, editor, conc>>

\* _on_delete_from_history up to its await
_on_delete_from_history ==
  /\ app.mounted /\ ~app._editing
  /\ \E it \in app._history \ app._deleting :
       app' = [app EXCEPT !._deleting = @ \cup {it}]
  /\ UNCHANGED <<serverVars, fn, editor, conc>>

\* _on_delete_from_history after its await
DeleteSettles ==
  /\ app.mounted
  /\ \E it \in app._deleting :
       LET ok == it \in app.stored
           gone == [app EXCEPT !.stored = @ \ {it}, !._history = @ \ {it}]
           got == IF ~ok THEN app
                  ELSE IF app._saved = it
                    THEN [gone EXCEPT !._current = None, !._saved = 0, !._editing = FALSE]
                  ELSE gone
       IN  app' = DropEditor(app, [got EXCEPT !._deleting = @ \ {it}])
  /\ UNCHANGED <<serverVars, fn, editor, conc>>

\* _open_editor_smart up to its await, or to its end for a saved image
_open_editor_smart ==
  /\ app.mounted /\ ~app._editing
  /\ ~app._saving /\ app._current # None
  /\ app.saves < MaxSaves
  /\ app' = IF app._saved # 0
              THEN [app EXCEPT !._modal_result = FALSE, !._modal_phase = "edit",
                               !._editing = TRUE]
              ELSE IF app._current = "data"
                THEN [app EXCEPT !._saving = TRUE, !.savingFor = "open"]
              ELSE app
  /\ UNCHANGED <<serverVars, fn, editor, conc>>

\* _close_editor
_close_editor ==
  /\ app.mounted /\ app._editing
  /\ app' = [app EXCEPT !._editing = FALSE, !._modal_phase = "edit",
                         !._modal_result = FALSE, !.editCall = FALSE]
  /\ UNCHANGED <<serverVars, fn, editor, conc>>

\* the mask editor in the modal starts its edit call
EditorApplies ==
  /\ app.mounted /\ app._editing /\ EditorShown(app)
  /\ ~app.editCall
  /\ app' = [app EXCEPT !.editCall = TRUE]
  /\ UNCHANGED <<serverVars, fn, editor, conc>>

\* _on_edit_done
_on_edit_done(a, saved) ==
  IF saved # 0
    THEN [a EXCEPT !._saved = saved, !._current = "url", !._modal_result = FALSE,
                   !._modal_phase = "edit"]
    ELSE [a EXCEPT !._modal_result = TRUE, !._current = "data",
                   !._modal_phase = "result"]

\* the edit call settles; the editor, given autosave false, emits done with
\* no saved file
EditSettles ==
  /\ app.mounted /\ app.editCall
  /\ \E ok \in BOOLEAN :
       app' = [(IF ok THEN _on_edit_done(app, 0) ELSE app) EXCEPT !.editCall = FALSE]
  /\ UNCHANGED <<serverVars, fn, editor, conc>>

\* _save_modal_result and _continue_modal_edit up to their await
ModalSaveStarts ==
  /\ app.mounted /\ app._editing /\ ~EditorShown(app)
  /\ ~app._busy_modal
  /\ app.saves < MaxSaves
  /\ \E which \in {"save", "continue"} :
       app' = IF ~app._modal_result THEN app
              ELSE [app EXCEPT !._busy_modal = TRUE, !.modalCall = which]
  /\ UNCHANGED <<serverVars, fn, editor, conc>>

\* _save_modal_result and _continue_modal_edit after their await
ModalSaveSettles ==
  /\ app.mounted /\ app._busy_modal
  /\ \E ok \in {b \in BOOLEAN : b => app.saves < MaxSaves} :
       LET saved == [Stored(app) EXCEPT !._saved = NewFile(app), !._current = "url",
                                        !._history = app.stored \cup {NewFile(app)}]
           got == IF ~ok THEN app
                  ELSE IF app.modalCall = "continue"
                    THEN [saved EXCEPT !._modal_result = FALSE, !._modal_phase = "edit"]
                  ELSE saved
       IN  app' = DropEditor(app, [got EXCEPT !._busy_modal = FALSE, !.modalCall = None])
  /\ UNCHANGED <<serverVars, fn, editor, conc>>

AppNext ==
  \/ _on_generate
  \/ GenerateSettles
  \/ _ingest_data_url
  \/ IngestSettles
  \/ _on_save_current
  \/ SaveSettles
  \/ _open_from_history
  \/ _on_delete_from_history
  \/ DeleteSettles
  \/ _open_editor_smart
  \/ _close_editor
  \/ EditorApplies
  \/ EditSettles
  \/ ModalSaveStarts
  \/ ModalSaveSettles

AppSpec == AppInit /\ [][AppNext]_vars

(***************************************************************************)
(* Properties.                                                             *)
(***************************************************************************)
Entered(s) == \E i \in 1 .. Len(trace) : trace[i] = s
Succeeded  == resp.status = 200
Failed     == resp.status >= 400
SaveAsked  == "save" \notin body.absent /\ body.save
ImagePixels == 1 .. geo.imgW * geo.imgH
SameDims   == msk.w = originalBuf.w /\ msk.h = originalBuf.h

\* C1: in every successful edit, every pixel whose image-space edit alpha is 0
\* has the value of the base image on every channel, whatever feather and padding.
C1_UnmaskedPixelsExact ==
  Succeeded =>
    \A i \in ImagePixels : geo.alpha[i] = 0 => outBuf.pix[i] = originalBuf.pix[i]

\* C2: the BBox handed to the patch preparer and the compositor lies inside the
\* image and has width and height of at least 1, for equal and different
\* mask and image sizes.
C2_BBoxValid ==
  Entered("align_mask_to_image") /\ pc # "align_mask_to_image" =>
    /\ 0 <= geo.bbox.left /\ 0 <= geo.bbox.top
    /\ geo.bbox.left + geo.bbox.width <= geo.imgW
    /\ geo.bbox.top + geo.bbox.height <= geo.imgH
    /\ geo.bbox.width >= 1 /\ geo.bbox.height >= 1

C2_Witness ==
  /\ pc = "make_patch" /\ ~SameDims /\ req.padding > 0
  /\ geo.bbox.width >= 1

\* C3: an all-zero decoded edit alpha ends the request with empty_mask at
\* stage mask_to_bbox, with no call of the model and no write to storage.
C3_EmptyMaskRejected ==
  (msk.decoded # <<>> /\ \A i \in 1 .. Len(msk.decoded) : msk.decoded[i] = 0) =>
    /\ resp = errorResponse(400, "empty_mask", "mask_to_bbox")
    /\ modelCalls = 0
    /\ storage = storage0
    /\ writes = 0

C3_Witness ==
  /\ msk.decoded # <<>> /\ \A i \in 1 .. Len(msk.decoded) : msk.decoded[i] = 0
  /\ pc = "done" /\ resp.error = "empty_mask"

\* C4: a mask of the image's size with exactly one edit pixel (x,y), padding 0
\* and feather 0: the request is not rejected as empty_mask, the BBox is
\* {x, y, 1, 1}, and only (x,y) can differ between output and input.
C4_SinglePixelEdit ==
  \A i \in 1 .. Len(msk.decoded) :
    ( /\ msk.decoded[i] > 0
      /\ \A j \in 1 .. Len(msk.decoded) : j # i => msk.decoded[j] = 0
      /\ SameDims /\ req.padding = 0 /\ req.feather = 0 ) =>
      /\ resp.error # "empty_mask"
      /\ Entered("align_mask_to_image") /\ pc # "align_mask_to_image" =>
           geo.bbox = [left |-> (i - 1) % msk.w, top |-> (i - 1) \div msk.w,
                       width |-> 1, height |-> 1]
      /\ Succeeded =>
           \A j \in ImagePixels : j # i => outBuf.pix[j] = originalBuf.pix[j]

\* C5: storage is written at most once per request, only at stage
\* save_or_return, after the composite succeeded and with save = true; a request
\* that fails, that has not reached save_or_return or that has save = false
\* leaves generated/ and edits/ as they were.
C5_StorageWrittenOnlyAtSave ==
  /\ writes <= 1
  /\ storage # storage0 =>
       /\ stage = "save_or_return" /\ Entered("composite")
       /\ outBuf.pix # <<>> /\ SaveAsked
  /\ (Failed \/ ~Entered("save_or_return") \/ ~SaveAsked) => storage = storage0

\* C6: a successful response carries `file` exactly when the request had
\* save = true; with save omitted there is no file.
C6_FileIffSave ==
  Succeeded => (resp.file # NoFile <=> SaveAsked)

C6_Witness ==
  Succeeded /\ SaveAsked /\ resp.file = savedFile(NewName)

\* the values `stage` takes, in the order of the handler
StageOrder ==
  <<"parse", "read_base", "parse_mask", "mask_to_bbox", "align_mask_to_image",
    "make_patch", "openrouter", "composite", "save_or_return">>

\* the stage tags an error of each operation may carry
StagesOf(op) ==
  CASE op \in {"json", "bodySchema"} -> {"parse"}
    [] op = "readImageByName" -> {"read_base"}
    [] op = "parseDataUrl" -> {"parse_mask"}
    [] op \in {"computeEditAlpha", "bboxFromAlpha"} -> {"mask_to_bbox"}
    [] op = "metadata" -> {"read_base", "align_mask_to_image"}
    [] op = "makePatchDataUrlScaled" -> {"make_patch"}
    [] op = "orGenerateFromPatch" -> {"openrouter"}
    [] op = "precheck" -> {"composite_precheck"}
    [] op = "strictComposite" -> {"composite"}
    [] op = "saveToEdits" -> {"save_or_return"}

\* C7: the stages run in the fixed order, never going back, and an error
\* response carries the tag of the stage whose operation failed; a failure to
\* read the base image's dimensions is not reported under a mask stage.
C7_StagesOrderedAndTagged ==
  /\ trace = SubSeq(StageOrder, 1, Len(trace))
  /\ Failed => resp.stage \in StagesOf(failedOp)

\* C8: after a first answer of the model that is a 401, a 429 or an answer
\* without image, no second request is sent for that edit.
C8_NoSecondRequest ==
  ( \/ orFrame.first.kind = "no_image"
    \/ orFrame.first.kind = "http" /\ orFrame.first.status \in {401, 429} ) =>
    modelCalls <= 1

\* C9: when the model call fails with openrouter_http_401 the response is
\* HTTP 401, invalid_openrouter_api_key, stage openrouter, and nothing is written.
C9_AuthFailure ==
  (failedOp = "orGenerateFromPatch" /\ thrown.kind = "http" /\ thrown.status = 401) =>
    /\ resp = errorResponse(401, "invalid_openrouter_api_key", "openrouter")
    /\ storage = storage0
    /\ writes = 0

C9_Witness ==
  /\ failedOp = "orGenerateFromPatch" /\ thrown.text = "openrouter_http_401"
  /\ resp.status = 401 /\ modelCalls = 2

\* C10: every edit request eventually produces a response: a model call that
\* does not complete is given up (ModelTimeout) instead of waiting forever.
C10_EveryEditResponds == <>(resp # NoResp)

\* the image-space bbox of this request, had its padding been p
bboxOfPadding(p) ==
  alignBBox(padBBox(msk.b0, msk.w, msk.h, p), msk.w, msk.h, geo.imgW, geo.imgH)

Area(b) == b.width * b.height

\* C11: with everything but the padding the same, the area of the image-space
\* BBox does not decrease when the padding grows, for equal and for different
\* mask and image sizes.
C11_AreaMonotoneInPadding ==
  pc = "make_patch" =>
    /\ geo.bbox = bboxOfPadding(req.padding)
    /\ \A p \in 0 .. PaddingLimit - 1 :
         Area(bboxOfPadding(p)) <= Area(bboxOfPadding(p + 1))

C11_Witness ==
  /\ pc = "make_patch" /\ ~SameDims /\ req.padding > 0
  /\ Area(bboxOfPadding(0)) < Area(geo.bbox)

\* the pixels a composite with feather f changes, everything else as in this request
DiffSet(f) ==
  LET out == strictComposite(originalBuf, editedBuf, geo.alpha, geo.bbox, f, rawChannels)
  IN  {i \in ImagePixels : out.pix[i] # originalBuf.pix[i]}

\* the feathers whose blur mask is tabulated
Feathers == 0 .. 3

\* the pixels of the bbox enlarged by 3 f on each side
NearBBox(f) ==
  {i \in ImagePixels :
     LET x == (i - 1) % geo.imgW
         y == (i - 1) \div geo.imgW
     IN  /\ geo.bbox.left - 3 * f <= x /\ x < geo.bbox.left + geo.bbox.width + 3 * f
         /\ geo.bbox.top - 3 * f <= y /\ y < geo.bbox.top + geo.bbox.height + 3 * f}

\* C12: with everything but the feather the same, the set of pixels where the
\* output differs from the input for the larger feather contains the set for
\* the smaller one, and for every feather f the set lies within the padded
\* BBox enlarged by 3 f pixels on each side.
C12_DiffGrowsWithFeather ==
  pc = "save_or_return" =>
    /\ {i \in ImagePixels : outBuf.pix[i] # originalBuf.pix[i]} = DiffSet(req.feather)
    /\ \A f \in Feathers : DiffSet(f) \subseteq NearBBox(f)
    /\ \A f1, f2 \in Feathers : f1 <= f2 => DiffSet(f1) \subseteq DiffSet(f2)

\* the gain k, a fraction, lies in [0.6, 1.6]
GainInRange(k) == k.den > 0 /\ 3 * k.den <= 5 * k.num /\ 5 * k.num <= 8 * k.den

\* the gains of every patch mean and every ring mean in 0 .. 255
AllGainsInRange == \A t \in 0 .. 255, s \in 0 .. 255 : GainInRange(gx(t, 1, s))

\* the gains colorMatchTo computes for the patch of this request
GainsHere ==
  LET neighMean == surroundingMean(originalBuf, geo.imgW, geo.imgH, geo.bbox, RingPx)
  IN  [c \in Channels |-> gx(neighMean.sum[c], neighMean.count, editedBuf.rgb[c])]

\* C13: each of the three per-channel gains the colour matcher computes and
\* applies to the patch lies in [0.6, 1.6], for every patch mean and every
\* surrounding mean in 0 .. 255.
C13_GainsClamped ==
  /\ AllGainsInRange
  /\ pc = "save_or_return" =>
       /\ \A c \in Channels : GainInRange(GainsHere[c])
       /\ \A i \in ImagePixels :
            i \in NearBBox(0) /\ geo.alpha[i] = 255 /\ req.feather = 0 =>
              outBuf.pix[i] = [c \in Channels |->
                                 clamp((editedBuf.rgb[c] * GainsHere[c].num)
                                         \div GainsHere[c].den, 0, 255)]

C13_Witness ==
  /\ pc = "save_or_return"
  /\ \E c \in Channels : GainsHere[c] = [num |-> 8, den |-> 5]
  /\ \E c \in Channels : GainsHere[c] = [num |-> 3, den |-> 5]
  /\ \E c \in Channels : 3 * GainsHere[c].den < 5 * GainsHere[c].num
                           /\ 5 * GainsHere[c].num < 8 * GainsHere[c].den

\* C14: when the mask has the dimensions of the base image, the alpha passed to
\* the compositor equals, value for value, the edit alpha the mask decoder
\* produced, and the BBox passed is the padded mask-space BBox unchanged.
C14_SameSizeAlphaUntouched ==
  SameDims /\ Entered("composite") =>
    /\ geo.alpha = msk.decoded
    /\ geo.bbox = msk.bboxMaskSpace

\* C15: the composited output of a successful edit has exactly the width and
\* height of the base image, whatever the sizes of the mask, of the returned
\* patch and of the BBox, and whatever feather and padding.
C15_OutputHasBaseSize ==
  (Succeeded \/ pc \in {"save_or_return", "write_file"}) =>
    /\ outBuf.w = originalBuf.w
    /\ outBuf.h = originalBuf.h
    /\ Len(outBuf.pix) = originalBuf.w * originalBuf.h

C15_Witness ==
  /\ Succeeded /\ ~SameDims
  /\ <<editedBuf.w, editedBuf.h>> # <<geo.bbox.width, geo.bbox.height>>
  /\ <<geo.bbox.width, geo.bbox.height>> # <<originalBuf.w, originalBuf.h>>
  /\ outBuf.w = originalBuf.w

\* ^[a-f0-9-]+\.(png|jpg|jpeg|webp)$ read with case: lower-case hex digits and
\* hyphens, a dot, one of the four lower-case extensions
MatchesLowerCasePattern(name) ==
  \E k \in 2 .. Len(name) :
    /\ name[k] = "."
    /\ \A i \in 1 .. k - 1 : name[i] \in HexDash
    /\ [i \in 1 .. Len(name) - k |-> name[k + i]] \in SafeExts

\* C16: a storage read or an edit request whose filename does not match
\* ^[a-f0-9-]+\.(png|jpg|jpeg|webp)$ (all lower case) fails with bad_file_name
\* before any file is opened.
C16_BadNamesRejected ==
  ( /\ pc # "parse" /\ body.json /\ Present(body, "filename")
    /\ ~MatchesLowerCasePattern(body.filename) ) =>
    /\ readImageByName(storage, body.filename).err = "bad_file_name"
    /\ pc = "done" /\ Failed
    /\ "bad_file_name" \in thrown.has
    /\ originalBuf = NoBuf
    /\ ~Entered("read_base")

\* C17: a well-formed filename that names no file in generated/ or edits/ ends
\* the request at stage read_base with error file_not_found and HTTP status 404.
C17_MissingFileIs404 ==
  ( /\ Entered("read_base") /\ pc # "read_base"
    /\ req.filename \notin DOMAIN storage0.generated \cup DOMAIN storage0.edits ) =>
    resp = errorResponse(404, "file_not_found", "read_base")

\* a body that fails validation: prompt missing or empty, a field of the wrong
\* type, feather or padding out of range, a required field missing, a bad
\* filename
InvalidBody(b) ==
  \/ "prompt" \in b.absent \/ (Present(b, "prompt") /\ b.prompt = "")
  \/ b.wrongType # {}
  \/ Present(b, "feather") /\ (b.feather < 0 \/ b.feather > FeatherLimit)
  \/ Present(b, "padding") /\ (b.padding < 0 \/ b.padding > PaddingLimit)
  \/ "filename" \in b.absent \/ (Present(b, "filename") /\ ~isSafeFileName(b.filename))
  \/ "mask_data_url" \in b.absent \/ (Present(b, "mask_data_url") /\ b.mask_data_url.empty)

\* C18: a request whose body fails validation is rejected at stage parse with
\* a 4xx status, never 5xx, and no later stage runs.
C18_InvalidBodyIs4xx ==
  (pc # "parse" /\ body.json /\ InvalidBody(body)) =>
    /\ pc = "done" /\ resp.stage = "parse" /\ trace = <<"parse">>
    /\ resp.status >= 400 /\ resp.status <= 499

\* C19: the mask decoder returns 255 - alpha[i] for every pixel when the mask
\* has an alpha channel with a pixel below 255, and otherwise 255 where
\* luma[i] > 200 and 0 elsewhere; either way width * height entries.
C19_MaskDecoder ==
  msk.decoded # <<>> =>
    LET m == req.mask_data_url.image
        n == m.w * m.h
    IN  /\ Len(msk.decoded) = n /\ msk.w = m.w /\ msk.h = m.h
        /\ IF m.hasAlpha /\ \E i \in 1 .. n : m.alpha[i] < 255
             THEN \A i \in 1 .. n : msk.decoded[i] = 255 - m.alpha[i]
             ELSE \A i \in 1 .. n : msk.decoded[i] = IF m.luma[i] > 200 THEN 255 ELSE 0

C19_Witness ==
  /\ msk.decoded # <<>>
  /\ ~req.mask_data_url.image.hasAlpha
  /\ \E i \in 1 .. Len(msk.decoded) :
       req.mask_data_url.image.luma[i] = 200 /\ msk.decoded[i] = 0
  /\ \E i \in 1 .. Len(msk.decoded) :
       req.mask_data_url.image.luma[i] = 201 /\ msk.decoded[i] = 255

\* the BBox lies inside an image of w by h pixels
InImage(b, w, h) ==
  /\ 0 <= b.left /\ 0 <= b.top /\ 1 <= b.width /\ 1 <= b.height
  /\ b.left + b.width <= w /\ b.top + b.height <= h

AlphaMismatch == Entered("make_patch") /\ Len(geo.alpha) # geo.imgW * geo.imgH

\* C20: whenever the compositor is invoked the alpha it receives has
\* imgW * imgH entries and the BBox lies in the image; a request whose aligned
\* alpha has another length ends with 500 alpha_size_mismatch at stage
\* composite_precheck and never invokes the compositor.
C20_AlphaLengthGuard ==
  /\ Entered("composite") =>
       Len(geo.alpha) = geo.imgW * geo.imgH /\ InImage(geo.bbox, geo.imgW, geo.imgH)
  /\ AlphaMismatch => ~Entered("composite")
  /\ (AlphaMismatch /\ pc = "done") =>
       resp = errorResponse(500, "alpha_size_mismatch", "composite_precheck")

\* a patch was made and sent on
PatchSent == fn.name = "makePatchDataUrlScaled" /\ fn.done /\ fn.patch.err = None

\* n differs from the fraction num/den by at most 1
WithinOne(n, num, den) == (n - 1) * den <= num /\ num <= (n + 1) * den

C27_AskedEdgesPositive ==
  (fn.name = "makePatchDataUrlScaled" /\ fn.done) =>
    /\ fn.patch.asked.width >= 1 /\ fn.patch.asked.height >= 1
    /\ fn.patch.err = None

\* the pixels of the buffer bboxFromAlpha was called on that are greater than 0
EditPixels == {q \in PixelsOf(fn.w, fn.h) : fn.alpha[Idx(q[1], q[2], fn.w)] > 0}

\* C23: bboxFromAlpha returns null exactly when no entry of alpha is greater
\* than 0; otherwise its rectangle contains every pixel with alpha > 0 and each
\* of its four border rows and columns holds such a pixel.
C23_TightBBox ==
  (fn.name = "bboxFromAlpha" /\ fn.done) =>
    LET b == fn.bbox
    IN  /\ b = NoBBox <=> EditPixels = {}
        /\ EditPixels # {} =>
             /\ \A q \in EditPixels :
                  /\ b.left <= q[1] /\ q[1] < b.left + b.width
                  /\ b.top <= q[2] /\ q[2] < b.top + b.height
             /\ \E q \in EditPixels : q[1] = b.left
             /\ \E q \in EditPixels : q[1] = b.left + b.width - 1
             /\ \E q \in EditPixels : q[2] = b.top
             /\ \E q \in EditPixels : q[2] = b.top + b.height - 1

C23_Witness ==
  /\ fn.name = "bboxFromAlpha" /\ fn.done
  /\ fn.w = 3 /\ fn.h = 2
  /\ fn.alpha = <<0, 1, 0, 0, 0, 255>>
  /\ fn.bbox = [left |-> 1, top |-> 0, width |-> 2, height |-> 2]

\* the first request came back with a 4xx status or without an image
FirstAsksForSecond(r) ==
  \/ r.kind = "no_image"
  \/ r.kind = "http" /\ r.status >= 400 /\ r.status <= 499

\* C24: one call of orGenerateFromPatch sends at most two requests; the second
\* goes out only after a 4xx status or an answer without image to the first;
\* without API key nothing is sent; any other failure of the first request ends
\* the call with one request sent; the second request's outcome ends the call.
C24_AtMostTwoRequests ==
  [][/\ modelCalls' <= 2
     /\ modelCalls' # modelCalls =>
          /\ modelCalls' = modelCalls + 1
          /\ orFrame'.payload = (IF modelCalls = 0 THEN "A" ELSE "B")
     /\ orFrame'.payload = "B" => FirstAsksForSecond(orFrame'.first)
     /\ (pc = "openrouter" /\ pc' = "done") =>
          modelCalls' = 0 /\ thrown'.text = "OPENROUTER_API_KEY not set"
     /\ (orFrame.payload = "A" /\ orFrame'.payload # "B") =>
          modelCalls' = 1 /\ pc' \in {"done", "composite"}
     /\ (orFrame.payload = "A" /\ pc' = "done" /\ thrown' # NoError) =>
          ~FirstAsksForSecond([kind |-> thrown'.kind, status |-> thrown'.status])
     /\ orFrame.payload = "B" =>
          modelCalls' = 2 /\ orFrame'.payload = None /\ pc' \in {"done", "composite"}
    ]_vars

C24_Witness ==
  /\ pc = "done" /\ modelCalls = 2
  /\ thrown.text = "no_image_in_response"
  /\ resp = errorResponse(500, "no_image_in_response", "openrouter")

\* C25: a response carries invalid_openrouter_api_key (status 401) only for an
\* authentication failure of the model call at stage openrouter, never for a
\* failure raised at another stage.
C25_AuthErrorOnlyFromModel ==
  (resp.error = "invalid_openrouter_api_key" \/ resp.status = 401) =>
    /\ resp = errorResponse(401, "invalid_openrouter_api_key", "openrouter")
    /\ failedOp = "orGenerateFromPatch"
    /\ thrown.kind = "http" /\ thrown.status = 401

\* pixels of the image whose image-space edit alpha is greater than 0
EditedInImage ==
  {q \in PixelsOf(geo.imgW, geo.imgH) : geo.alpha[Idx(q[1], q[2], geo.imgW)] > 0}

InBBox(q, b) ==
  /\ b.left <= q[1] /\ q[1] < b.left + b.width
  /\ b.top <= q[2] /\ q[2] < b.top + b.height

\* C26: after align_mask_to_image every pixel whose image-space edit alpha is
\* greater than 0 lies inside the image-space BBox, whatever the padding and the
\* sizes of mask and image.
C26_EditedPixelsInBBox ==
  (Entered("make_patch") /\ Len(geo.alpha) = geo.imgW * geo.imgH) =>
    \A q \in EditedInImage : InBBox(q, geo.bbox)

\* the file an edit of q.filename reads in storage st
BaseIn(name, st) ==
  IF name \in DOMAIN st.generated THEN st.generated[name]
  ELSE IF name \in DOMAIN st.edits THEN st.edits[name]
  ELSE NoContent

\* the answer of edit request q run with no other request, on storage st
Alone(q, st) ==
  LET c == BaseIn(q.filename, st)
  IN  IF c.kind = None THEN [status |-> 400, error |-> "file_not_found", image |-> NoContent]
      ELSE IF c.kind # "image"
        THEN [status |-> 500, error |-> "unsupported image format", image |-> NoContent]
      ELSE IF ~q.modelOk
        THEN [status |-> 500, error |-> "no_image_in_response", image |-> NoContent]
      ELSE [status |-> 200, error |-> None, image |-> Edited(c)]

AnswersAsAlone(q, st) ==
  /\ q.resp.status = Alone(q, st).status
  /\ q.resp.error = Alone(q, st).error
  /\ q.resp.image = Alone(q, st).image
  /\ (q.resp.file # 0) = (q.resp.status = 200 /\ q.save)

\* C22: an edit request heard beside other edit, upload, save and delete
\* requests answers what it would answer alone on the storage it read its
\* base image from, whatever was written or deleted after that read; the
\* file it saves has a name no other request was given and, while it is
\* stored, holds this request's image.
C22_EditsAreIsolated ==
  conc.running =>
    \A r \in EditIds :
      LET q == conc.reqs[r]
      IN  q.pc = "done" =>
            /\ \E st \in q.seen : AnswersAsAlone(q, st)
            /\ q.resp.file # 0 =>
                  /\ \A r2 \in EditIds \ {r} : conc.reqs[r2].saved # q.resp.file
                  /\ q.resp.file \notin DOMAIN conc.generated
                  /\ q.resp.file \in DOMAIN conc.edits =>
                        conc.edits[q.resp.file] = q.resp.image

\* both edits of file 1 answered with one edit laid over the image they read,
\* one of them saved, and the file deleted before they answered
C22_Witness ==
  /\ conc.running
  /\ \A r \in EditIds :
       /\ conc.reqs[r].pc = "done"
       /\ conc.reqs[r].filename = 1
       /\ conc.reqs[r].resp.status = 200
       /\ conc.reqs[r].resp.image = Image("a", 1)
  /\ conc.reqs[1].resp.file # 0
  /\ 1 \notin DOMAIN conc.generated


\* a step that delivers pointerup, pointercancel or pointerleave
PointerUpStep == editor'.last \in {"pointerup", "pointercancel", "pointerleave"}
                   /\ editor'.events = editor.events + 1

\* C28: a pointerup, pointercancel or pointerleave that ends no stroke, none
\* being drawn, leaves the undo history and its index as they were.
C28_IdlePointerUpKeepsHistory ==
  [][(PointerUpStep /\ ~editor._is_drawing) =>
       (editor'._hist = editor._hist /\ editor'._hIndex = editor._hIndex)]_vars

\* C28, the consequence for redo: when an undo is followed only by such
\* events, the history still holds the undone mask right after the index.
C28_RedoSurvivesIdlePointerUp ==
  [][(PointerUpStep /\ ~editor._is_drawing /\ editor.last = "undo"
        /\ editor._hIndex < Len(editor._hist) - 1) =>
       (editor'._hIndex < Len(editor'._hist) - 1
          /\ editor'._hist[editor'._hIndex + 2] = editor._hist[editor._hIndex + 2])]_vars

\* C29: one editor has at most one _edit_image call in flight.
C29_OneEditInFlight == editor.inFlight <= 1


\* C30: whenever the edit modal is open and shows the result view, that is
\* not the editor of a saved image in phase edit, _modal_result is set.
C30_ResultViewHasResult ==
  (app.mounted /\ app._editing /\ ~EditorShown(app)) => app._modal_result


====
